---- MODULE Spec2Model ----
(***************************************************************************)
(* Quiz submission, grading and result disclosure of the forms/quiz        *)
(* server (routes/quizzes.js, models/Quiz.js, models/QuizResponse.js).     *)
(*                                                                         *)
(* JavaScript values are modelled as follows.  A string is a sequence of   *)
(* characters, so that toLowerCase and trim are computed.  An              *)
(* object is a function whose DOMAIN is its set of keys: a key that is     *)
(* undefined is not in the DOMAIN, which is also what JSON.stringify       *)
(* sends.  A Mongoose document is the object after schema casting, with    *)
(* the schema defaults filled in.                                          *)
(***************************************************************************)
EXTENDS Integers, Sequences, FiniteSets, TLC

VARIABLES
    quizzes,    \* the quizzes collection: quiz id -> stored Quiz document
    responses,  \* the quizresponses collection, in insertion order
    req,        \* per request slot: the submit handler's position and locals
    view,       \* the last get-quiz request: its requester and its reply
    minted,     \* per collection: how many ObjectIds were generated for it
    forms,      \* the forms collection: form id -> stored Form document
    formResponses, \* the responses collection of the forms, in insertion order
    freq,       \* per request slot: a form-response handler's position and locals
    users,      \* the users collection: user id -> stored User document
    taker,      \* the state of a QuizTaker component in the browser
    builder     \* the state of a QuizBuilder component in the browser

\* the state of the quiz routes
quizVars == <<quizzes, responses, req, view, minted>>

\* the state the quiz routes never touch
otherVars == <<forms, formResponses, freq, users, taker, builder>>

vars == <<quizzes, responses, req, view, minted,
          forms, formResponses, freq, users, taker, builder>>

----------------------------------------------------------------------------
(* Bounds of the model. *)

\* the longest list of core answers in one submission
MaxAnswers == 2

\* the pointsEarned value a client puts into an answer
ForgedPoints == 5

\* runs of several requests: no submission starts once this many responses
\* were stored
MaxStored == 2

----------------------------------------------------------------------------
(* JavaScript strings and objects. *)

EmptyObj == <<>>

Has(o, k) == k \in DOMAIN o

\* o with the keys of p overriding: the spread { ...o, ...p }
Spread(o, p) == p @@ o

\* The characters of the model are those of the Unicode blocks Basic Latin,
\* Latin-1 Supplement, Latin Extended-A, Combining Diacritical Marks, Greek
\* and Coptic, and Cyrillic, and the white space of ECMAScript.  A character
\* that a TLA+ string cannot hold is named by its code point: "U+03A9".

\* the characters whose lower case is another single character, and that
\* lower case at the same position
UpperLetters ==
    <<"A", "B", "C", "D", "E", "F", "G", "H",
      "I", "J", "K", "L", "M", "N", "O", "P",
      "Q", "R", "S", "T", "U", "V", "W", "X",
      "Y", "Z", "À", "Á", "Â", "Ã", "Ä", "Å",
      "Æ", "Ç", "È", "É", "Ê", "Ë", "Ì", "Í",
      "Î", "Ï", "Ð", "Ñ", "Ò", "Ó", "Ô", "Õ",
      "Ö", "Ø", "Ù", "Ú", "Û", "Ü", "Ý", "Þ",
      "U+0100", "U+0102", "U+0104", "U+0106", "U+0108", "U+010A", "U+010C", "U+010E",
      "U+0110", "U+0112", "U+0114", "U+0116", "U+0118", "U+011A", "U+011C", "U+011E",
      "U+0120", "U+0122", "U+0124", "U+0126", "U+0128", "U+012A", "U+012C", "U+012E",
      "U+0132", "U+0134", "U+0136", "U+0139", "U+013B", "U+013D", "U+013F", "U+0141",
      "U+0143", "U+0145", "U+0147", "U+014A", "U+014C", "U+014E", "U+0150", "U+0152",
      "U+0154", "U+0156", "U+0158", "U+015A", "U+015C", "U+015E", "U+0160", "U+0162",
      "U+0164", "U+0166", "U+0168", "U+016A", "U+016C", "U+016E", "U+0170", "U+0172",
      "U+0174", "U+0176", "U+0178", "U+0179", "U+017B", "U+017D", "U+0370", "U+0372",
      "U+0376", "U+037F", "U+0386", "U+0388", "U+0389", "U+038A", "U+038C", "U+038E",
      "U+038F", "U+0391", "U+0392", "U+0393", "U+0394", "U+0395", "U+0396", "U+0397",
      "U+0398", "U+0399", "U+039A", "U+039B", "U+039C", "U+039D", "U+039E", "U+039F",
      "U+03A0", "U+03A1", "U+03A4", "U+03A5", "U+03A6", "U+03A7", "U+03A8", "U+03A9",
      "U+03AA", "U+03AB", "U+03CF", "U+03D8", "U+03DA", "U+03DC", "U+03DE", "U+03E0",
      "U+03E2", "U+03E4", "U+03E6", "U+03E8", "U+03EA", "U+03EC", "U+03EE", "U+03F4",
      "U+03F7", "U+03F9", "U+03FA", "U+03FD", "U+03FE", "U+03FF", "U+0400", "U+0401",
      "U+0402", "U+0403", "U+0404", "U+0405", "U+0406", "U+0407", "U+0408", "U+0409",
      "U+040A", "U+040B", "U+040C", "U+040D", "U+040E", "U+040F", "U+0410", "U+0411",
      "U+0412", "U+0413", "U+0414", "U+0415", "U+0416", "U+0417", "U+0418", "U+0419",
      "U+041A", "U+041B", "U+041C", "U+041D", "U+041E", "U+041F", "U+0420", "U+0421",
      "U+0422", "U+0423", "U+0424", "U+0425", "U+0426", "U+0427", "U+0428", "U+0429",
      "U+042A", "U+042B", "U+042C", "U+042D", "U+042E", "U+042F", "U+0460", "U+0462",
      "U+0464", "U+0466", "U+0468", "U+046A", "U+046C", "U+046E", "U+0470", "U+0472",
      "U+0474", "U+0476", "U+0478", "U+047A", "U+047C", "U+047E", "U+0480", "U+048A",
      "U+048C", "U+048E", "U+0490", "U+0492", "U+0494", "U+0496", "U+0498", "U+049A",
      "U+049C", "U+049E", "U+04A0", "U+04A2", "U+04A4", "U+04A6", "U+04A8", "U+04AA",
      "U+04AC", "U+04AE", "U+04B0", "U+04B2", "U+04B4", "U+04B6", "U+04B8", "U+04BA",
      "U+04BC", "U+04BE", "U+04C0", "U+04C1", "U+04C3", "U+04C5", "U+04C7", "U+04C9",
      "U+04CB", "U+04CD", "U+04D0", "U+04D2", "U+04D4", "U+04D6", "U+04D8", "U+04DA",
      "U+04DC", "U+04DE", "U+04E0", "U+04E2", "U+04E4", "U+04E6", "U+04E8", "U+04EA",
      "U+04EC", "U+04EE", "U+04F0", "U+04F2", "U+04F4", "U+04F6", "U+04F8", "U+04FA",
      "U+04FC", "U+04FE">>

LowerLetters ==
    <<"a", "b", "c", "d", "e", "f", "g", "h",
      "i", "j", "k", "l", "m", "n", "o", "p",
      "q", "r", "s", "t", "u", "v", "w", "x",
      "y", "z", "à", "á", "â", "ã", "ä", "å",
      "æ", "ç", "è", "é", "ê", "ë", "ì", "í",
      "î", "ï", "ð", "ñ", "ò", "ó", "ô", "õ",
      "ö", "ø", "ù", "ú", "û", "ü", "ý", "þ",
      "U+0101", "U+0103", "U+0105", "U+0107", "U+0109", "U+010B", "U+010D", "U+010F",
      "U+0111", "U+0113", "U+0115", "U+0117", "U+0119", "U+011B", "U+011D", "U+011F",
      "U+0121", "U+0123", "U+0125", "U+0127", "U+0129", "U+012B", "U+012D", "U+012F",
      "U+0133", "U+0135", "U+0137", "U+013A", "U+013C", "U+013E", "U+0140", "U+0142",
      "U+0144", "U+0146", "U+0148", "U+014B", "U+014D", "U+014F", "U+0151", "U+0153",
      "U+0155", "U+0157", "U+0159", "U+015B", "U+015D", "U+015F", "U+0161", "U+0163",
      "U+0165", "U+0167", "U+0169", "U+016B", "U+016D", "U+016F", "U+0171", "U+0173",
      "U+0175", "U+0177", "ÿ", "U+017A", "U+017C", "U+017E", "U+0371", "U+0373",
      "U+0377", "U+03F3", "U+03AC", "U+03AD", "U+03AE", "U+03AF", "U+03CC", "U+03CD",
      "U+03CE", "U+03B1", "U+03B2", "U+03B3", "U+03B4", "U+03B5", "U+03B6", "U+03B7",
      "U+03B8", "U+03B9", "U+03BA", "U+03BB", "U+03BC", "U+03BD", "U+03BE", "U+03BF",
      "U+03C0", "U+03C1", "U+03C4", "U+03C5", "U+03C6", "U+03C7", "U+03C8", "U+03C9",
      "U+03CA", "U+03CB", "U+03D7", "U+03D9", "U+03DB", "U+03DD", "U+03DF", "U+03E1",
      "U+03E3", "U+03E5", "U+03E7", "U+03E9", "U+03EB", "U+03ED", "U+03EF", "U+03B8",
      "U+03F8", "U+03F2", "U+03FB", "U+037B", "U+037C", "U+037D", "U+0450", "U+0451",
      "U+0452", "U+0453", "U+0454", "U+0455", "U+0456", "U+0457", "U+0458", "U+0459",
      "U+045A", "U+045B", "U+045C", "U+045D", "U+045E", "U+045F", "U+0430", "U+0431",
      "U+0432", "U+0433", "U+0434", "U+0435", "U+0436", "U+0437", "U+0438", "U+0439",
      "U+043A", "U+043B", "U+043C", "U+043D", "U+043E", "U+043F", "U+0440", "U+0441",
      "U+0442", "U+0443", "U+0444", "U+0445", "U+0446", "U+0447", "U+0448", "U+0449",
      "U+044A", "U+044B", "U+044C", "U+044D", "U+044E", "U+044F", "U+0461", "U+0463",
      "U+0465", "U+0467", "U+0469", "U+046B", "U+046D", "U+046F", "U+0471", "U+0473",
      "U+0475", "U+0477", "U+0479", "U+047B", "U+047D", "U+047F", "U+0481", "U+048B",
      "U+048D", "U+048F", "U+0491", "U+0493", "U+0495", "U+0497", "U+0499", "U+049B",
      "U+049D", "U+049F", "U+04A1", "U+04A3", "U+04A5", "U+04A7", "U+04A9", "U+04AB",
      "U+04AD", "U+04AF", "U+04B1", "U+04B3", "U+04B5", "U+04B7", "U+04B9", "U+04BB",
      "U+04BD", "U+04BF", "U+04CF", "U+04C2", "U+04C4", "U+04C6", "U+04C8", "U+04CA",
      "U+04CC", "U+04CE", "U+04D1", "U+04D3", "U+04D5", "U+04D7", "U+04D9", "U+04DB",
      "U+04DD", "U+04DF", "U+04E1", "U+04E3", "U+04E5", "U+04E7", "U+04E9", "U+04EB",
      "U+04ED", "U+04EF", "U+04F1", "U+04F3", "U+04F5", "U+04F7", "U+04F9", "U+04FB",
      "U+04FD", "U+04FF">>

\* the cased characters that are in neither list
OtherCased ==
    {"ª", "µ", "º", "ß", "U+0131", "U+0138", "U+0149", "U+017F",
     "U+0345", "U+037A", "U+0390", "U+03B0", "U+03C2", "U+03C3", "U+03D0", "U+03D1",
     "U+03D2", "U+03D3", "U+03D4", "U+03D5", "U+03D6", "U+03F0", "U+03F1", "U+03F5",
     "U+03FC"}

\* the characters the final-sigma rule skips
CaseIgnorable ==
    {"'", ".", ":", "^", "U+0060", "¨", "U+00AD", "¯",
     "´", "·", "¸", "U+0300", "U+0301", "U+0302", "U+0303", "U+0304",
     "U+0305", "U+0306", "U+0307", "U+0308", "U+0309", "U+030A", "U+030B", "U+030C",
     "U+030D", "U+030E", "U+030F", "U+0310", "U+0311", "U+0312", "U+0313", "U+0314",
     "U+0315", "U+0316", "U+0317", "U+0318", "U+0319", "U+031A", "U+031B", "U+031C",
     "U+031D", "U+031E", "U+031F", "U+0320", "U+0321", "U+0322", "U+0323", "U+0324",
     "U+0325", "U+0326", "U+0327", "U+0328", "U+0329", "U+032A", "U+032B", "U+032C",
     "U+032D", "U+032E", "U+032F", "U+0330", "U+0331", "U+0332", "U+0333", "U+0334",
     "U+0335", "U+0336", "U+0337", "U+0338", "U+0339", "U+033A", "U+033B", "U+033C",
     "U+033D", "U+033E", "U+033F", "U+0340", "U+0341", "U+0342", "U+0343", "U+0344",
     "U+0345", "U+0346", "U+0347", "U+0348", "U+0349", "U+034A", "U+034B", "U+034C",
     "U+034D", "U+034E", "U+034F", "U+0350", "U+0351", "U+0352", "U+0353", "U+0354",
     "U+0355", "U+0356", "U+0357", "U+0358", "U+0359", "U+035A", "U+035B", "U+035C",
     "U+035D", "U+035E", "U+035F", "U+0360", "U+0361", "U+0362", "U+0363", "U+0364",
     "U+0365", "U+0366", "U+0367", "U+0368", "U+0369", "U+036A", "U+036B", "U+036C",
     "U+036D", "U+036E", "U+036F", "U+0374", "U+0375", "U+037A", "U+0384", "U+0385",
     "U+0387", "U+0483", "U+0484", "U+0485", "U+0486", "U+0487", "U+0488", "U+0489",
     "U+FEFF"}

LowerOf ==
    [c \in {UpperLetters[i] : i \in DOMAIN UpperLetters} |->
        LowerLetters[CHOOSE i \in DOMAIN UpperLetters : UpperLetters[i] = c]]

LowerChar(c) == IF c \in DOMAIN LowerOf THEN LowerOf[c] ELSE c

Cased(c) ==
    \/ c \in DOMAIN LowerOf
    \/ \E i \in DOMAIN LowerLetters : LowerLetters[i] = c
    \/ c \in OtherCased \cup {"U+03A3", "U+0130"}

\* the capital sigma at s[i] ends a word: a cased character comes before
\* it and none after it, case-ignorable characters in between aside. The
\* scan skips every case-ignorable character first, so a character that is
\* both cased and case-ignorable (U+0345, U+037A) counts as ignorable only
FinalSigma(s, i) ==
    /\ \E j \in 1..(i - 1) :
          /\ Cased(s[j])
          /\ s[j] \notin CaseIgnorable
          /\ \A l \in (j + 1)..(i - 1) : s[l] \in CaseIgnorable
    /\ ~ \E j \in (i + 1)..Len(s) :
          /\ Cased(s[j])
          /\ s[j] \notin CaseIgnorable
          /\ \A l \in (i + 1)..(j - 1) : s[l] \in CaseIgnorable

\* the lower case of the character at s[i]: capital sigma depends on its
\* place, and capital I with dot above becomes two characters
LowerAt(s, i) ==
    CASE s[i] = "U+03A3" ->
            IF FinalSigma(s, i) THEN <<"U+03C2">> ELSE <<"U+03C3">>
      [] s[i] = "U+0130" -> <<"i", "U+0307">>
      [] OTHER -> <<LowerChar(s[i])>>

RECURSIVE LowerFrom(_, _)
LowerFrom(s, i) ==
    IF i > Len(s) THEN <<>> ELSE LowerAt(s, i) \o LowerFrom(s, i + 1)

\* String.prototype.toLowerCase
ToLowerCase(s) == LowerFrom(s, 1)

StrictEq_IgnoreCase(o, k, p, j) ==
    /\ Has(o, k) = Has(p, j)
    /\ Has(o, k) => ToLowerCase(o[k]) = ToLowerCase(p[j])

\* a === b for two possibly-undefined properties o[k] and p[j]
StrictEq(o, k, p, j) ==
    /\ Has(o, k) = Has(p, j)
    /\ Has(o, k) => o[k] = p[j]

\* the WhiteSpace and LineTerminator characters of ECMAScript
WhiteSpace ==
    {"\t", "\n", "U+000B", "\f", "\r", " ", "U+00A0", "U+1680",
     "U+2000", "U+2001", "U+2002", "U+2003", "U+2004", "U+2005", "U+2006", "U+2007",
     "U+2008", "U+2009", "U+200A", "U+2028", "U+2029", "U+202F", "U+205F", "U+3000",
     "U+FEFF"}

RECURSIVE TrimStart(_)
TrimStart(s) ==
    IF s # <<>> /\ Head(s) \in WhiteSpace THEN TrimStart(Tail(s)) ELSE s

RECURSIVE TrimEnd(_)
TrimEnd(s) ==
    IF s # <<>> /\ s[Len(s)] \in WhiteSpace
    THEN TrimEnd(SubSeq(s, 1, Len(s) - 1))
    ELSE s

Trim_LeadingOnly(s) == TrimStart(s)

\* String.prototype.trim
Trim(s) == TrimEnd(TrimStart(s))

RECURSIVE Pow2(_)
Pow2(e) == IF e = 0 THEN 1 ELSE 2 * Pow2(e - 1)

\* the binary exponent e of n / d: 2^e <= n / d < 2^(e+1), for n, d > 0
RECURSIVE Exponent(_, _)
Exponent(n, d) ==
    IF n >= 2 * d THEN Exponent(n, 2 * d) + 1
    ELSE IF n < d THEN Exponent(2 * n, d) - 1
    ELSE 0

\* t more binary digits of a quotient whose remainder is r and whose last
\* digit is b: the remainder and the last digit after them
RECURSIVE LongDivision(_, _, _, _)
LongDivision(r, b, d, t) ==
    IF t = 0 THEN [r |-> r, odd |-> b]
    ELSE LongDivision((2 * r) % d, (2 * r) \div d, d, t - 1)

\* Math.round((n / d) * 100) for n >= 0 and d > 0, in IEEE-754 doubles.
\* The quotient and the product are each rounded to 53 significant bits,
\* with an error far below the distance of n / d * 100 to the next half,
\* unless n / d * 100 is exactly k + 0.5.  There the product is k + 0.5 or
\* the double just below it, and Math.round gives k + 1 or k: the double
\* q nearest n / d has 53 - 1 - e digits after the binary point, it falls
\* short of n / d by r / (d * 2^(52 - e)) when the division rounds down,
\* and 100 * q rounds down from k + 0.5 when it falls short of it by more
\* than half the spacing of the doubles below k + 0.5.
RoundPercent(n, d) ==
    IF (200 * n) % d # 0 \/ ((200 * n) \div d) % 2 = 0
    THEN (200 * n + d) \div (2 * d)
    ELSE LET k == (200 * n) \div (2 * d)
             e == Exponent(n, d)
             q == LongDivision(n % d, (n \div d) % 2, d, 52 - e)
             roundsDown == 2 * q.r < d \/ (2 * q.r = d /\ q.odd = 0)
             m == IF k = 0 THEN -2 ELSE Exponent(k, 1)
             halfSpacing == d * Pow2(m - e - 1)
         IN  IF roundsDown /\ 100 * q.r > halfSpacing THEN k ELSE k + 1

----------------------------------------------------------------------------
(* String literals used as inputs. *)

sEmpty == <<>>
sA == <<"A">>
sB == <<"B">>
sTrue == <<"T","r","u","e">>
sFalse == <<"F","a","l","s","e">>
sParis == <<"P","a","r","i","s">>
sParisLower == <<"p","a","r","i","s">>
sParisPadded == <<" ","P","A","R","I","S"," ">>
sLondon == <<"L","o","n","d","o","n">>
sWhy == <<"w","h","y">>
sTex == <<"x","^","2">>
sQuiz == <<"Q","u","i","z">>
sQuizPadded == <<" ","Q","u","i","z","\n">>
sAsk == <<"W","h","i","c","h","?">>

----------------------------------------------------------------------------
(* Users.  optionalAuth leaves req.user undefined for a request without a  *)
(* valid token; NoUser stands for that.                                    *)

Creator == "u1"
Users == {"u1", "u2"}
NoUser == "anonymous"
QuizIds == {"z1"}

----------------------------------------------------------------------------
(* models/Quiz.js: schema casting and the pre-save hook. *)

\* options: [{ id, text, latex, isCorrect: { default: false } }]
CastOption(o) == Spread([isCorrect |-> FALSE], o)

\* questionSchema: points defaults to 1, options is an array of option
\* subdocuments; correctAnswer, explanation, explanationLatex have no default
CastQuestion(q) ==
    LET d == Spread([points |-> 1, options |-> <<>>], q)
    IN  [d EXCEPT !.options =
            [i \in 1..Len(d.options) |-> CastOption(d.options[i])]]

SettingsDefaults ==
    [ showResults |-> "after_submit",
      allowRetake |-> TRUE,
      showCorrectAnswers |-> TRUE,
      showExplanations |-> TRUE,
      passingScore |-> 60 ]

\* quizSchema.settings: every setting has a default
CastSettings(s) == Spread(SettingsDefaults, s)

\* question.points || 1
PointsOrOne(q) == IF Has(q, "points") /\ q.points # 0 THEN q.points ELSE 1

\* questions.reduce((sum, question) => sum + (question.points || 1), 0)
RECURSIVE SumPoints(_)
SumPoints(questions) ==
    IF questions = <<>>
    THEN 0
    ELSE PointsOrOne(Head(questions)) + SumPoints(Tail(questions))

\* quizSchema.pre('save'): totalPoints is the sum of (points || 1)
QuizPreSave(quiz) == [quiz EXCEPT !.totalPoints = SumPoints(quiz.questions)]

----------------------------------------------------------------------------
(* routes/quizzes.js: create and update build the document to save. *)

\* uuidv4(): the identifiers it returns, in the order of the calls
FreshIds == <<"g1", "g2", "g3", "g4", "g5", "g6", "g7", "g8", "g9">>

\* !q.id: the question gets a generated id
MissingId(q) == ~(Has(q, "id") /\ q.id # "")

\* the number of uuidv4() calls made for the first i questions of qs
Generated(qs, i) == Cardinality({ j \in 1..i : MissingId(qs[j]) })

\* questions.map(q => ({ ...q, id: q.id || uuidv4() })), when uuidv4() was
\* called used times before
FormatQuestions(qs, used) ==
    [i \in 1..Len(qs) |->
        IF MissingId(qs[i])
        THEN Spread(qs[i], [id |-> FreshIds[used + Generated(qs, i)]])
        ELSE qs[i]]

\* secretCode || undefined
SecretOf(body) ==
    IF Has(body, "secretCode") /\ body.secretCode # ""
    THEN [secretCode |-> body.secretCode]
    ELSE EmptyObj

\* the questions path of a Quiz document set from request data
CastQuestions(qs, used) ==
    LET formatted == FormatQuestions(qs, used)
    IN  [i \in 1..Len(formatted) |-> CastQuestion(formatted[i])]

\* title and description are strings with trim: true; a key that is
\* undefined in the body stays undefined in the document
Trimmed(body, k) == IF Has(body, k) THEN k :> Trim(body[k]) ELSE EmptyObj

QuestionTypes == {"multiple-choice", "true-false", "fill-blank", "essay"}

ShowResultsValues == {"immediately", "after_submit", "manual"}

\* questionSchema: id, type and question are required strings, type is one
\* of the enum
QuestionValid(q) ==
    /\ Has(q, "id") /\ q.id # ""
    /\ Has(q, "type") /\ q.type \in QuestionTypes
    /\ Has(q, "question") /\ q.question # <<>>

\* document validation run by save(): title is required, every question is
\* valid, settings.showResults is one of the enum.  createdBy is always set
QuizValid(quiz) ==
    /\ Has(quiz, "title") /\ quiz.title # <<>>
    /\ \A i \in 1..Len(quiz.questions) : QuestionValid(quiz.questions[i])
    /\ quiz.settings.showResults \in ShowResultsValues

\* POST /: new Quiz({...}) as quiz.save() stores it, when uuidv4() was
\* called used times before
NewQuiz(body, user, used) ==
    QuizPreSave(
        Trimmed(body, "title") @@ Trimmed(body, "description") @@
        [ questions |-> CastQuestions(body.questions, used),
          createdBy |-> user,
          isPublic |-> ~(Has(body, "isPublic") /\ body.isPublic = FALSE),
          isActive |-> TRUE,
          settings |-> CastSettings(IF Has(body, "settings")
                                    THEN body.settings ELSE EmptyObj),
          totalPoints |-> 0,
          responseCount |-> 0,
          __v |-> 0 ] @@ SecretOf(body))

\* PUT /:id: the fields present in the body are assigned to the document
\* that was loaded, when uuidv4() was called used times before
UpdateQuizDoc(quiz, body, used) ==
    LET q0 == Trimmed(body, "title") @@ Trimmed(body, "description") @@ quiz
        q1 == IF Has(body, "questions")
              THEN [q0 EXCEPT !.questions =
                        CastQuestions(body.questions, used)]
              ELSE q0
        q2 == IF Has(body, "isPublic")
              THEN [q1 EXCEPT !.isPublic = body.isPublic] ELSE q1
        q3 == IF Has(body, "secretCode")
              THEN SecretOf(body) @@
                   [k \in DOMAIN q2 \ {"secretCode"} |-> q2[k]]
              ELSE q2
        q4 == IF Has(body, "settings")
              THEN [q3 EXCEPT !.settings =
                        CastSettings(Spread(q3.settings, body.settings))]
              ELSE q3
        q5 == IF Has(body, "isActive")
              THEN [q4 EXCEPT !.isActive = body.isActive] ELSE q4
    IN  q5

----------------------------------------------------------------------------
(* The question bank the quizzes of the model are built from. *)

OptA == [id |-> sA, text |-> "first", isCorrect |-> FALSE]
OptB == [id |-> sB, text |-> "second", isCorrect |-> TRUE]
OptTrue == [id |-> sTrue, text |-> "True"]
OptFalse == [id |-> sFalse, text |-> "False"]

\* multiple-choice, 2 points, with an explanation and its LaTeX form
Q1 == [ id |-> "q1", type |-> "multiple-choice", question |-> sAsk,
        options |-> <<OptA, OptB>>,
        correctAnswer |-> sB, points |-> 2,
        explanation |-> sWhy, explanationLatex |-> sTex ]

\* fill-blank, 1 point, no explanation
Q2 == [ id |-> "q2", type |-> "fill-blank", question |-> sAsk,
        correctAnswer |-> sParis, points |-> 1 ]

\* essay: no answer key, an empty explanation
Q3 == [ id |-> "q3", type |-> "essay", question |-> sAsk, points |-> 1,
        explanation |-> sEmpty ]

\* true-false, points left to the default, an explanation without LaTeX
Q4 == [ id |-> "q4", type |-> "true-false", question |-> sAsk,
        options |-> <<OptTrue, OptFalse>>,
        correctAnswer |-> sTrue, explanation |-> sWhy ]

QuestionLists == { <<>>, <<Q1, Q2>>, <<Q1, Q2, Q3, Q4>> }

----------------------------------------------------------------------------
(* models/QuizResponse.js: schema casting, validation, the pre-save hook. *)

\* answerSchema: isCorrect defaults to false, pointsEarned to 0
CastAnswer(a) == Spread([isCorrect |-> FALSE, pointsEarned |-> 0], a)

\* answerSchema: questionId is a required String, which the empty string
\* does not satisfy; answer is a required Mixed, which only undefined and
\* null do not satisfy
AnswerValid(a) ==
    /\ Has(a, "questionId") /\ a.questionId # ""
    /\ Has(a, "answer")

\* document validation run by save(): a failure rejects the save
ResponseValid(r) == \A i \in 1..Len(r.answers) : AnswerValid(r.answers[i])

\* answer.pointsEarned || 0
EarnedOrZero(a) == IF Has(a, "pointsEarned") THEN a.pointsEarned ELSE 0

\* answers.reduce((sum, answer) => sum + (answer.pointsEarned || 0), 0)
RECURSIVE SumEarned(_)
SumEarned(answers) ==
    IF answers = <<>>
    THEN 0
    ELSE EarnedOrZero(Head(answers)) + SumEarned(Tail(answers))

ResponsePreSave_Unscored(r) == r

\* quizResponseSchema.pre('save'): score is the sum of pointsEarned, and
\* percentage is recomputed only when totalPoints > 0
ResponsePreSave(r) ==
    LET score == SumEarned(r.answers)
    IN  [r EXCEPT !.score = score,
                  !.percentage = IF r.totalPoints > 0
                                 THEN RoundPercent(score, r.totalPoints)
                                 ELSE r.percentage]

----------------------------------------------------------------------------
(* routes/quizzes.js, POST /:id/submit: grading. *)

\* quiz.questions.find(q => q.id === questionId) finds a question
HasQuestion(quiz, qid) ==
    \E i \in 1..Len(quiz.questions) : quiz.questions[i].id = qid

\* quiz.questions.find(q => q.id === questionId): the first match
FindQuestion(quiz, qid) ==
    quiz.questions[CHOOSE i \in 1..Len(quiz.questions) :
                       /\ quiz.questions[i].id = qid
                       /\ \A j \in 1..(i - 1) : quiz.questions[j].id # qid]

\* undefined.toLowerCase() raises a TypeError
GradeThrows(question, ua) ==
    /\ question.type = "fill-blank"
    /\ ~Has(ua, "answer") \/ ~Has(question, "correctAnswer")

\* the switch on question.type
IsCorrect(question, ua) ==
    CASE question.type = "multiple-choice" ->
            StrictEq(ua, "answer", question, "correctAnswer")
      [] question.type = "true-false" ->
            StrictEq(ua, "answer", question, "correctAnswer")
      [] question.type = "fill-blank" ->
            Trim(ToLowerCase(ua.answer))
                = Trim(ToLowerCase(question.correctAnswer))
      [] question.type = "essay" -> FALSE
      [] OTHER -> FALSE

\* pointsEarned = question.points || 1 when correct, else 0
PointsFor(question, correct) == IF correct THEN PointsOrOne(question) ELSE 0

GradeAnswer_ClientWins(quiz, ua) ==
    IF ~HasQuestion(quiz, ua.questionId)
    THEN ua
    ELSE LET question == FindQuestion(quiz, ua.questionId)
             correct == IsCorrect(question, ua)
         IN  Spread([isCorrect |-> correct,
                     pointsEarned |-> PointsFor(question, correct)], ua)

\* one element of answers.map(...): an answer to no question of the quiz is
\* returned as submitted
GradeAnswer(quiz, ua) ==
    IF ~HasQuestion(quiz, ua.questionId)
    THEN ua
    ELSE LET question == FindQuestion(quiz, ua.questionId)
             correct == IsCorrect(question, ua)
         IN  Spread(ua, [isCorrect |-> correct,
                         pointsEarned |-> PointsFor(question, correct)])

GradeAll(quiz, answers) == [i \in 1..Len(answers) |-> GradeAnswer(quiz, answers[i])]

GradingThrows(quiz, answers) ==
    \E i \in 1..Len(answers) :
        /\ HasQuestion(quiz, answers[i].questionId)
        /\ GradeThrows(FindQuestion(quiz, answers[i].questionId), answers[i])

\* quiz.settings.passingScore || 60
PassThreshold(quiz) ==
    IF quiz.settings.passingScore # 0 THEN quiz.settings.passingScore ELSE 60

\* the percentage read by the line that sets passed: the document has not
\* been saved yet, so it still holds the schema default
PercentageAtPassCheck(r) == r.percentage

\* new QuizResponse({...}) followed by response.passed = ...
NewResponse(quiz, quizId, user, body, graded) ==
    LET r == [ quizId |-> quizId,
               answers |-> [i \in 1..Len(graded) |-> CastAnswer(graded[i])],
               totalPoints |-> quiz.totalPoints,
               score |-> 0,
               percentage |-> 0,
               passed |-> FALSE ]
              @@ (IF user # NoUser THEN [respondentId |-> user] ELSE EmptyObj)
              @@ (IF Has(body, "completionTime")
                  THEN [completionTime |-> body.completionTime] ELSE EmptyObj)
    IN  [r EXCEPT !.passed = PercentageAtPassCheck(r) >= PassThreshold(quiz)]

----------------------------------------------------------------------------
(* routes/quizzes.js, POST /:id/submit: the reply. *)

ShowsResults_OnlyImmediately(quiz) ==
    quiz.settings.showResults = "immediately"

\* line 253: the results are part of the reply
ShowsResults(quiz) ==
    quiz.settings.showResults \in {"immediately", "after_submit"}

ShowsDetails_OnlyAnswers(quiz) == quiz.settings.showCorrectAnswers

\* line 262: detailedResults is part of the reply
ShowsDetails(quiz) ==
    quiz.settings.showCorrectAnswers \/ quiz.settings.showExplanations

HasExplanation_Defined(question) == Has(question, "explanation")

\* question.explanation is truthy
HasExplanation(question) ==
    Has(question, "explanation") /\ question.explanation # sEmpty

\* question.correctAnswer of a question that was not found raises a TypeError
DetailThrows(quiz, graded) ==
    \E i \in 1..Len(graded) : ~HasQuestion(quiz, graded[i].questionId)

Pick(o, k, as) == IF Has(o, k) THEN as :> o[k] ELSE EmptyObj

CorrectAnswerPart_Always(quiz, question) ==
    Pick(question, "correctAnswer", "correctAnswer")

\* lines 272-274: result.correctAnswer, sent when it is not undefined
CorrectAnswerPart(quiz, question) ==
    IF quiz.settings.showCorrectAnswers
    THEN Pick(question, "correctAnswer", "correctAnswer")
    ELSE EmptyObj

\* lines 276-279: result.explanation and result.explanationLatex, the
\* latter sent when it is not undefined
ExplanationPart(quiz, question) ==
    IF quiz.settings.showExplanations /\ HasExplanation(question)
    THEN [explanation |-> question.explanation]
         @@ Pick(question, "explanationLatex", "explanationLatex")
    ELSE EmptyObj

\* one element of detailedResults, as serialised by res.json
DetailEntry(quiz, answer) ==
    LET question == FindQuestion(quiz, answer.questionId)
    IN  [questionId |-> answer.questionId]
        @@ Pick(answer, "answer", "userAnswer")
        @@ Pick(answer, "isCorrect", "isCorrect")
        @@ Pick(answer, "pointsEarned", "pointsEarned")
        @@ CorrectAnswerPart(quiz, question)
        @@ ExplanationPart(quiz, question)

ResultsOf(response) ==
    [ score |-> response.score,
      totalPoints |-> response.totalPoints,
      percentage |-> response.percentage,
      passed |-> response.passed ]
    @@ Pick(response, "completionTime", "completionTime")

\* responseData as serialised by res.json
ReplyBody(quiz, response, graded) ==
    [responseId |-> response.id, message |-> "Quiz submitted successfully"]
    @@ (IF ShowsResults(quiz)
        THEN [results |-> ResultsOf(response)]
        ELSE EmptyObj)
    @@ (IF ShowsResults(quiz) /\ ShowsDetails(quiz)
        THEN [detailedResults |->
                 [i \in 1..Len(graded) |-> DetailEntry(quiz, graded[i])]]
        ELSE EmptyObj)

ReplyThrows(quiz, graded) ==
    ShowsResults(quiz) /\ ShowsDetails(quiz) /\ DetailThrows(quiz, graded)

Reply(status, body) == [status |-> status, body |-> body]

ErrorReply(status, message) == Reply(status, [message |-> message])

----------------------------------------------------------------------------
(* routes/quizzes.js, POST /:id/submit: the handler, one action per await. *)

Slots == {1, 2}

Idle == [pc |-> "idle"]

Done(reply) == [pc |-> "done", reply |-> reply]

\* nothing but the quiz routes is in use: no form, no user document, no
\* component mounted
OtherIdle ==
    /\ forms = EmptyObj
    /\ formResponses = <<>>
    /\ freq = [s \in Slots |-> Idle]
    /\ users = EmptyObj
    /\ taker = EmptyObj
    /\ builder = EmptyObj

\* the counters of generated ObjectIds that go with a database in which no
\* document was ever deleted
Minted(qs, rs) ==
    [ quiz |-> Cardinality(DOMAIN qs), response |-> Len(rs), uuid |-> 0 ]

Inactive_Never(quiz) == FALSE

\* line 169: !quiz.isActive
Inactive(quiz) == ~quiz.isActive

InsertResponse_Upsert(coll, doc) ==
    IF \E i \in 1..Len(coll) :
           /\ coll[i].quizId = doc.quizId
           /\ Has(coll[i], "respondentId") /\ Has(doc, "respondentId")
           /\ coll[i].respondentId = doc.respondentId
    THEN [i \in 1..Len(coll) |->
             IF /\ coll[i].quizId = doc.quizId
                /\ Has(coll[i], "respondentId") /\ Has(doc, "respondentId")
                /\ coll[i].respondentId = doc.respondentId
             THEN doc ELSE coll[i]]
    ELSE Append(coll, doc)

\* the insert done by save() of a new document: the collection gains the
\* document and no stored document changes
InsertResponse(coll, doc) == Append(coll, doc)

\* QuizResponse.findOne({ quizId, respondentId: req.user._id }) finds one
ExistingResponse(quizId, user) ==
    \E i \in 1..Len(responses) :
        /\ responses[i].quizId = quizId
        /\ Has(responses[i], "respondentId")
        /\ responses[i].respondentId = user

\* what results if the quiz were read again when grading starts; the
\* request keeps the version it read first
GradeStep_Reread(r) ==
    IF Has(quizzes, r.quizId)
    THEN LET now == quizzes[r.quizId]
         IN  IF GradingThrows(now, r.body.answers)
             THEN Spread(r, Done(ErrorReply(500, "Server error")))
             ELSE LET graded == GradeAll(now, r.body.answers)
                  IN  Spread(r, [ pc |-> "save",
                                  graded |-> graded,
                                  response |-> NewResponse(now, r.quizId,
                                                  r.user, r.body, graded) ])
    ELSE Spread(r, Done(ErrorReply(500, "Server error")))

\* lines 185-240, up to the call of response.save(): grade, build the
\* document, set passed; a TypeError while grading goes to the catch block
GradeStep(r) ==
    IF GradingThrows(r.quiz, r.body.answers)
    THEN Spread(r, Done(ErrorReply(500, "Server error")))
    ELSE LET graded == GradeAll(r.quiz, r.body.answers)
         IN  Spread(r, [ pc |-> "save",
                         graded |-> graded,
                         response |-> NewResponse(r.quiz, r.quizId, r.user,
                                                  r.body, graded) ])

\* lines 160-183: Quiz.findById and the checks that follow it
SubmitFind(s, user, quizId, body) ==
    /\ req[s].pc = "idle"
    /\ LET r == [ pc |-> "find", user |-> user, quizId |-> quizId,
                  body |-> body ]
       IN  req' = [req EXCEPT ![s] =
               IF ~Has(quizzes, quizId)
               THEN Spread(r, Done(ErrorReply(404, "Quiz not found")))
               ELSE IF Inactive(quizzes[quizId])
               THEN Spread(r, Done(ErrorReply(400, "Quiz is no longer active")))
               ELSE IF ~quizzes[quizId].settings.allowRetake /\ user # NoUser
               THEN Spread(r, [pc |-> "dupcheck", quiz |-> quizzes[quizId]])
               ELSE GradeStep(Spread(r, [quiz |-> quizzes[quizId]]))]
    /\ UNCHANGED <<quizzes, responses, view, minted, otherVars>>

\* lines 175-183: QuizResponse.findOne answers
SubmitDupCheck(s) ==
    /\ req[s].pc = "dupcheck"
    /\ req' = [req EXCEPT ![s] =
           IF ExistingResponse(req[s].quizId, req[s].user)
           THEN Spread(req[s],
                       Done(ErrorReply(400, "You have already taken this quiz")))
           ELSE GradeStep(req[s])]
    /\ UNCHANGED <<quizzes, responses, view, minted, otherVars>>

\* line 240: response.save() validates, runs the pre-save hook and inserts
SubmitSave(s) ==
    /\ req[s].pc = "save"
    /\ IF ~ResponseValid(req[s].response)
       THEN /\ req' = [req EXCEPT ![s] =
                    Spread(req[s], Done(ErrorReply(500, "Server error")))]
            /\ UNCHANGED <<responses, minted>>
       ELSE LET saved == ResponsePreSave(req[s].response)
                           @@ [id |-> minted.response + 1]
            IN  /\ responses' = InsertResponse(responses, saved)
                /\ minted' = [minted EXCEPT !.response = @ + 1]
                /\ req' = [req EXCEPT ![s] =
                        Spread(req[s], [pc |-> "inc", response |-> saved])]
    /\ UNCHANGED <<quizzes, view, otherVars>>

\* lines 243-290: $inc responseCount, then the reply is built and sent; a
\* TypeError while building it goes to the catch block
SubmitInc(s) ==
    /\ req[s].pc = "inc"
    /\ quizzes' =
           IF Has(quizzes, req[s].quizId)
           THEN [quizzes EXCEPT ![req[s].quizId].responseCount = @ + 1]
           ELSE quizzes
    /\ req' = [req EXCEPT ![s] =
           IF ReplyThrows(req[s].quiz, req[s].graded)
           THEN Spread(req[s], Done(ErrorReply(500, "Server error")))
           ELSE Spread(req[s],
                       Done(Reply(201, ReplyBody(req[s].quiz, req[s].response,
                                                 req[s].graded))))]
    /\ UNCHANGED <<responses, view, minted, otherVars>>

----------------------------------------------------------------------------
(* Inputs of the sequential specification. *)

Ans(qid, value) == [questionId |-> qid, answer |-> value]

Forged == [isCorrect |-> TRUE, pointsEarned |-> ForgedPoints]

CoreAnswers ==
    { Ans("q1", sB), Ans("q1", sA), Ans("q2", sParisLower), Ans("q2", sLondon),
      Ans("qX", sB) @@ Forged }

ExtraAnswers ==
    { Ans("q1", sA) @@ Forged, Ans("qX", sB), Ans("", sB),
      Ans("q2", sParisPadded), Ans("q3", sWhy), Ans("q4", sTrue) }
    \cup { Ans(q, sEmpty) : q \in {"q1", "q2", "q3", "q4"} }
    \cup { [questionId |-> q] : q \in {"q1", "q2", "q3", "q4"} }

AnswerLists ==
    UNION { [1..n -> CoreAnswers] : n \in 0..MaxAnswers }
    \cup { <<a>> : a \in ExtraAnswers }

SubmitBodies ==
    { [answers |-> l] : l \in AnswerLists }
    \cup { [answers |-> l, completionTime |-> 42] : l \in AnswerLists }

SubmitUsers == {NoUser, "u2"}

SettingsInputs ==
    { EmptyObj } \cup
    [ showResults : {"immediately", "after_submit", "manual"},
      allowRetake : BOOLEAN,
      showCorrectAnswers : BOOLEAN,
      showExplanations : BOOLEAN,
      passingScore : {60, 100} ]

QuizBodies ==
    { [title |-> sQuiz, questions |-> ql, settings |-> st] :
          ql \in QuestionLists, st \in SettingsInputs }

\* the quizzes a creator can have stored: created, or created and deactivated
StoredQuizzes ==
    { NewQuiz(b, Creator, 0) : b \in QuizBodies }
    \cup { UpdateQuizDoc(
                NewQuiz([title |-> sQuiz, questions |-> <<Q1, Q2>>],
                        Creator, 0),
                [isActive |-> FALSE], 0) }

Databases == { EmptyObj } \cup { "z1" :> q : q \in StoredQuizzes }

Init ==
    /\ quizzes \in Databases
    /\ responses = <<>>
    /\ req = [s \in Slots |-> Idle]
    /\ view = EmptyObj
    /\ minted = Minted(quizzes, responses)
    /\ OtherIdle

Submit(s) ==
    \/ \E user \in SubmitUsers, body \in SubmitBodies :
           SubmitFind(s, user, "z1", body)
    \/ SubmitDupCheck(s)
    \/ SubmitSave(s)
    \/ SubmitInc(s)

Next == Submit(1)

Spec == Init /\ [][Next]_vars

----------------------------------------------------------------------------
(* Properties of the submit handler, checked under Spec. *)

Replied(s) == req[s].pc = "done"

\* the handler replied 201 with the submission's results
Succeeded(s) == Replied(s) /\ req[s].reply.status = 201

\* the quiz was found, was active and the retake check let the request pass:
\* the handler went on to grade the answers
Admitted(s) == Replied(s) /\ Has(req[s], "quiz") /\ req[s].reply.status # 400

Submitted(s) == req[s].body.answers

Unmatched(s, i) == ~HasQuestion(req[s].quiz, Submitted(s)[i].questionId)

\* the answer value is absent or the empty string
Blank(a) == ~Has(a, "answer") \/ a.answer = sEmpty

\* C1: the passed flag stored and returned for a submission equals
\* (percentage >= passingScore) for the percentage stored and returned with
\* it, the threshold being inclusive.
C1_PassedIsPercentageAtLeastPassingScore ==
    /\ \A i \in 1..Len(responses) :
           responses[i].passed =
               (responses[i].percentage
                    >= quizzes[responses[i].quizId].settings.passingScore)
    /\ \A s \in Slots :
           Succeeded(s) /\ Has(req[s].reply.body, "results") =>
               req[s].reply.body.results.passed =
                   (req[s].reply.body.results.percentage
                        >= req[s].quiz.settings.passingScore)

\* the points the quiz's own questions award for the (questionId, answer)
\* pair of a: nothing for an answer to no question of the quiz
AuthoritativePoints(quiz, a) ==
    IF HasQuestion(quiz, a.questionId)
    THEN LET question == FindQuestion(quiz, a.questionId)
         IN  IF question.type = "essay" THEN 0
             ELSE IF question.type = "fill-blank"
             THEN IF Trim(ToLowerCase(a.answer))
                        = Trim(ToLowerCase(question.correctAnswer))
                  THEN PointsOrOne(question) ELSE 0
             ELSE IF a.answer = question.correctAnswer
                  THEN PointsOrOne(question) ELSE 0
    ELSE 0

\* the score the quiz's own questions award for a list of answers
RECURSIVE AuthoritativeScore(_, _)
AuthoritativeScore(quiz, answers) ==
    IF answers = <<>>
    THEN 0
    ELSE AuthoritativePoints(quiz, Head(answers))
             + AuthoritativeScore(quiz, Tail(answers))

\* C2: the stored score depends only on the quiz's questions and on the
\* submitted (questionId, answer) pairs: client-supplied isCorrect and
\* pointsEarned never change it, and an answer to no question of the quiz
\* contributes 0 points.
C2_ScoreIgnoresClientGrading ==
    \A i \in 1..Len(responses) :
        responses[i].score =
            AuthoritativeScore(quizzes[responses[i].quizId],
                               responses[i].answers)

\* C3: an answer whose questionId matches no question of the quiz never
\* makes an otherwise well-formed submission fail, whatever the quiz's
\* visibility settings.
C3_UnknownQuestionNeverFails ==
    \A s \in Slots :
        /\ Admitted(s)
        /\ \A i \in 1..Len(Submitted(s)) : Has(Submitted(s)[i], "answer")
        /\ \E i \in 1..Len(Submitted(s)) : Unmatched(s, i)
        => req[s].reply.status = 201

\* C4: a submitted answer to a question of the quiz whose value is absent or
\* empty is graded isCorrect = false with pointsEarned = 0, and the
\* submission completes normally, for every question kind.
C4_BlankAnswerGradedIncorrect ==
    \A s \in Slots :
        /\ Admitted(s)
        /\ \A i \in 1..Len(Submitted(s)) : ~Unmatched(s, i)
        /\ \E i \in 1..Len(Submitted(s)) : Blank(Submitted(s)[i])
        => /\ req[s].reply.status = 201
           /\ \A i \in 1..Len(Submitted(s)) :
                  Blank(Submitted(s)[i]) =>
                      /\ req[s].graded[i].isCorrect = FALSE
                      /\ req[s].graded[i].pointsEarned = 0

ReplyOf(s) == req[s].reply.body

SettingsOf(s) == req[s].quiz.settings

\* C5 as stated: the Score Summary is in the reply to every accepted
\* submission, for every value of showResults.
C5_SummaryAlwaysReturned ==
    \A s \in Slots : Succeeded(s) => Has(ReplyOf(s), "results")

\* C5 amended: every success reply carries the Score Summary exactly when
\* showResults is immediately or after_submit; the summary then holds the
\* stored response's score, totalPoints, percentage and passed, and the
\* completionTime exactly when one was submitted.
C5_SummaryIffResultsShown ==
    \A s \in Slots :
        Succeeded(s) =>
            LET stored == responses[ReplyOf(s).responseId]
                shown == SettingsOf(s).showResults
                             \in {"immediately", "after_submit"}
            IN  /\ Has(ReplyOf(s), "results") <=> shown
                /\ shown =>
                    LET results == ReplyOf(s).results
                    IN  /\ results.score = stored.score
                        /\ results.totalPoints = stored.totalPoints
                        /\ results.percentage = stored.percentage
                        /\ results.passed = stored.passed
                        /\ Has(results, "completionTime")
                               <=> Has(req[s].body, "completionTime")
                        /\ Has(results, "completionTime") =>
                               results.completionTime
                                   = req[s].body.completionTime

C5_Witness ==
    \E s \in Slots :
        /\ Succeeded(s)
        /\ Has(ReplyOf(s), "results")
        /\ ReplyOf(s).results.score > 0
        /\ Has(ReplyOf(s).results, "completionTime")

\* C6 as stated: the Detailed Breakdown is absent from the reply when
\* showResults is manual and present otherwise, whatever showCorrectAnswers
\* and showExplanations are.
C6_DetailsUnlessManual ==
    \A s \in Slots :
        Succeeded(s) =>
            (Has(ReplyOf(s), "detailedResults")
                 <=> SettingsOf(s).showResults # "manual")

\* C6 amended: a success reply carries the Detailed Breakdown exactly when
\* showResults is immediately or after_submit and at least one of
\* showCorrectAnswers and showExplanations is true; it then has one entry per
\* submitted answer, in order, with questionId, isCorrect and pointsEarned.
C6_DetailsIffShownAndRequested ==
    \A s \in Slots :
        Succeeded(s) =>
            LET present == Has(ReplyOf(s), "detailedResults")
            IN  /\ present <=>
                       /\ SettingsOf(s).showResults
                              \in {"immediately", "after_submit"}
                       /\ \/ SettingsOf(s).showCorrectAnswers
                          \/ SettingsOf(s).showExplanations
                /\ present =>
                       /\ Len(ReplyOf(s).detailedResults) = Len(Submitted(s))
                       /\ \A i \in 1..Len(Submitted(s)) :
                              LET e == ReplyOf(s).detailedResults[i]
                              IN  /\ e.questionId = Submitted(s)[i].questionId
                                  /\ e.isCorrect = req[s].graded[i].isCorrect
                                  /\ e.pointsEarned
                                         = req[s].graded[i].pointsEarned

C6_Witness ==
    \E s \in Slots :
        /\ Succeeded(s)
        /\ Has(ReplyOf(s), "detailedResults")
        /\ Len(ReplyOf(s).detailedResults) = 2
        /\ ~SettingsOf(s).showCorrectAnswers

\* a Detailed Breakdown was returned by slot s and i is one of its entries
Entries(s) ==
    IF Succeeded(s) /\ Has(ReplyOf(s), "detailedResults")
    THEN 1..Len(ReplyOf(s).detailedResults)
    ELSE {}

Entry(s, i) == ReplyOf(s).detailedResults[i]

QuestionOfEntry(s, i) == FindQuestion(req[s].quiz, Entry(s, i).questionId)

\* C9 as stated: every entry of a returned Detailed Breakdown carries a
\* correctAnswer field if and only if showCorrectAnswers is true, for
\* questions of every kind.
C9_CorrectAnswerIffShown ==
    \A s \in Slots : \A i \in Entries(s) :
        Has(Entry(s, i), "correctAnswer") <=> SettingsOf(s).showCorrectAnswers

\* C9 amended: every entry of a returned Detailed Breakdown carries a
\* correctAnswer field if and only if showCorrectAnswers is true and the
\* entry's question defines a correctAnswer (an essay question need not);
\* the field then holds the question's correctAnswer.
C9_CorrectAnswerIffShownAndDefined ==
    \A s \in Slots : \A i \in Entries(s) :
        /\ Has(Entry(s, i), "correctAnswer") <=>
               /\ SettingsOf(s).showCorrectAnswers
               /\ Has(QuestionOfEntry(s, i), "correctAnswer")
        /\ Has(Entry(s, i), "correctAnswer") =>
               Entry(s, i).correctAnswer = QuestionOfEntry(s, i).correctAnswer

C9_Witness ==
    \E s \in Slots : \E i \in Entries(s) :
        /\ Has(Entry(s, i), "correctAnswer")
        /\ QuestionOfEntry(s, i).type = "fill-blank"

\* the entry's question has a non-empty explanation and showExplanations is
\* true
ExplanationDue(s, i) ==
    /\ SettingsOf(s).showExplanations
    /\ Has(QuestionOfEntry(s, i), "explanation")
    /\ QuestionOfEntry(s, i).explanation # sEmpty

\* C10 as stated: an entry of a returned Detailed Breakdown carries
\* explanation, and explanationLatex, if and only if showExplanations is true
\* and the entry's question has a non-empty explanation.
C10_ExplanationAndLatexIffShown ==
    \A s \in Slots : \A i \in Entries(s) :
        /\ Has(Entry(s, i), "explanation") <=> ExplanationDue(s, i)
        /\ Has(Entry(s, i), "explanationLatex") <=> ExplanationDue(s, i)

\* C10 amended: an entry carries explanation if and only if showExplanations
\* is true and the entry's question has a non-empty explanation; it carries
\* explanationLatex if and only if, in addition, the question defines an
\* explanationLatex.  Both hold the question's values.
C10_ExplanationIffShownAndNonEmpty ==
    \A s \in Slots : \A i \in Entries(s) :
        /\ Has(Entry(s, i), "explanation") <=> ExplanationDue(s, i)
        /\ Has(Entry(s, i), "explanationLatex") <=>
               /\ ExplanationDue(s, i)
               /\ Has(QuestionOfEntry(s, i), "explanationLatex")
        /\ Has(Entry(s, i), "explanation") =>
               Entry(s, i).explanation = QuestionOfEntry(s, i).explanation
        /\ Has(Entry(s, i), "explanationLatex") =>
               Entry(s, i).explanationLatex
                   = QuestionOfEntry(s, i).explanationLatex

C10_Witness ==
    \E s \in Slots : \E i \in Entries(s) :
        /\ Has(Entry(s, i), "explanation")
        /\ Has(Entry(s, i), "explanationLatex")

----------------------------------------------------------------------------
(* routes/quizzes.js, GET /:identifier. *)

\* identifier.match(/^[0-9a-fA-F]{24}$/): the identifiers of the model that
\* have the form of an ObjectId
ObjectIds == {"z0", "z1"}

Identifiers == ObjectIds \cup {"by-code"}

SecretCodes == {"s1", "s2"}

NoCode == ""

\* const { isCorrect, ...optionWithoutCorrect } = option
StripOption(o) == [k \in DOMAIN o \ {"isCorrect"} |-> o[k]]

\* const { correctAnswer, ...questionWithoutAnswer } = question.toObject(),
\* then every option without its isCorrect
StripQuestion(q) ==
    LET w == [k \in DOMAIN q \ {"correctAnswer"} |-> q[k]]
    IN  IF Has(w, "options")
        THEN [w EXCEPT !.options =
                 [i \in 1..Len(w.options) |-> StripOption(w.options[i])]]
        ELSE w

\* quiz.questions = quiz.questions.map(...): the stripped objects are
\* assigned to the questions path of the Quiz document, which casts each of
\* them through questionSchema (models/Quiz.js), option defaults included
Redact(quiz) ==
    [quiz EXCEPT !.questions =
        [i \in 1..Len(quiz.questions) |->
            CastQuestion(StripQuestion(quiz.questions[i]))]]

\* Quiz.findOne({ secretCode: code }) finds a quiz
HasQuizWithCode(code) ==
    \E id \in DOMAIN quizzes :
        Has(quizzes[id], "secretCode") /\ quizzes[id].secretCode = code

QuizWithCode(code) ==
    quizzes[CHOOSE id \in DOMAIN quizzes :
                Has(quizzes[id], "secretCode") /\ quizzes[id].secretCode = code]

\* line 136: !req.user || quiz.createdBy._id !== req.user._id
NotOwner(quiz, user) == user = NoUser \/ quiz.createdBy # user

\* lines 122-150: the reply once the lookups are over and found quiz
GetReply(user, code, quiz) ==
    IF ~quiz.isActive
    THEN ErrorReply(400, "Quiz is no longer active")
    ELSE IF Has(quiz, "secretCode") /\ quiz.secretCode # code
    THEN ErrorReply(403, "Secret code required")
    ELSE IF NotOwner(quiz, user)
    THEN Reply(200, Redact(quiz))
    ELSE Reply(200, quiz)

\* lines 116-124: Quiz.findOne({ secretCode: code }) and the reply
GetByCode(user, code) ==
    IF HasQuizWithCode(code)
    THEN GetReply(user, code, QuizWithCode(code))
    ELSE ErrorReply(404, "Quiz not found")

\* the handler up to the end of its first query.  An identifier of the form
\* of an ObjectId is looked up with Quiz.findById; when that finds nothing
\* and a code was sent, the handler goes on to the query by code.  For any
\* other identifier the query by code is the first one.  The handler reads
\* the collection and writes nothing
GetQuiz(user, identifier, code) ==
    /\ ~Has(view, "pc")
    /\ view' =
           IF identifier \in ObjectIds
           THEN IF Has(quizzes, identifier)
                THEN [ user |-> user ] @@
                     GetReply(user, code, quizzes[identifier])
                ELSE IF code # NoCode
                THEN [ pc |-> "code", user |-> user, code |-> code ]
                ELSE [ user |-> user ] @@ ErrorReply(404, "Quiz not found")
           ELSE IF code # NoCode
                THEN [ user |-> user ] @@ GetByCode(user, code)
                ELSE [ user |-> user ] @@ ErrorReply(404, "Quiz not found")
    /\ UNCHANGED <<quizzes, responses, req, minted, otherVars>>

\* Quiz.findById found nothing: Quiz.findOne({ secretCode: code })
GetQuizByCode ==
    /\ Has(view, "pc")
    /\ view' = [ user |-> view.user ] @@ GetByCode(view.user, view.code)
    /\ UNCHANGED <<quizzes, responses, req, minted, otherVars>>

GetDatabases ==
    Databases \cup
    { "z1" :> NewQuiz(b @@ [secretCode |-> "s1"], Creator, 0) :
          b \in QuizBodies }

InitGet ==
    /\ quizzes \in GetDatabases
    /\ responses = <<>>
    /\ req = [s \in Slots |-> Idle]
    /\ view = EmptyObj
    /\ minted = Minted(quizzes, responses)
    /\ OtherIdle

NextGet ==
    \/ \E user \in Users \cup {NoUser}, identifier \in Identifiers,
          code \in SecretCodes \cup {NoCode} :
           GetQuiz(user, identifier, code)
    \/ GetQuizByCode

SpecGet == InitGet /\ [][NextGet]_vars

\* the last get-quiz reply handed a quiz definition to someone who is not
\* its creator
ServedToNonCreator ==
    /\ Has(view, "status")
    /\ view.status = 200
    /\ view.user # view.body.createdBy

\* C7: in a quiz definition returned by get-quiz to anyone who is not its
\* creator, no question has a correctAnswer field and no option has an
\* isCorrect field.
C7_AnswerKeyRemovedForNonCreator ==
    ServedToNonCreator =>
        \A i \in 1..Len(view.body.questions) :
            LET q == view.body.questions[i]
            IN  /\ ~Has(q, "correctAnswer")
                /\ \A j \in 1..Len(q.options) : ~Has(q.options[j], "isCorrect")

\* what the reply to a non-creator does guarantee: no correctAnswer, and no
\* option marked correct
NoAnswerKeyDisclosed ==
    ServedToNonCreator =>
        \A i \in 1..Len(view.body.questions) :
            LET q == view.body.questions[i]
            IN  /\ ~Has(q, "correctAnswer")
                /\ \A j \in 1..Len(q.options) :
                       Has(q.options[j], "isCorrect") =>
                           q.options[j].isCorrect = FALSE

----------------------------------------------------------------------------
(* Concurrent submissions: two requests in flight, interleaved at awaits. *)

\* the reply has been sent: the slot serves the next request
Finish(s) ==
    /\ req[s].pc = "done"
    /\ req' = [req EXCEPT ![s] = Idle]
    /\ UNCHANGED <<quizzes, responses, view, minted, otherVars>>

RaceBodies == { [answers |-> <<>>], [answers |-> <<Ans("q1", sB)>>] }

RaceQuizBodies ==
    { [title |-> sQuiz, questions |-> <<Q1, Q2>>,
       settings |-> [allowRetake |-> retake]] : retake \in BOOLEAN }

InitRace ==
    /\ quizzes \in { "z1" :> NewQuiz(b, Creator, 0) : b \in RaceQuizBodies }
    /\ responses = <<>>
    /\ req = [s \in Slots |-> Idle]
    /\ view = EmptyObj
    /\ minted = Minted(quizzes, responses)
    /\ OtherIdle

SubmitRace(s) ==
    \/ /\ Len(responses) < MaxStored
       /\ \E user \in SubmitUsers, body \in RaceBodies :
              SubmitFind(s, user, "z1", body)
    \/ SubmitDupCheck(s)
    \/ SubmitSave(s)
    \/ SubmitInc(s)
    \/ Finish(s)

NextRace == \E s \in Slots : SubmitRace(s)

SpecRace == InitRace /\ [][NextRace]_vars

\* C8: for a quiz with allowRetake = false, at most one response per
\* signed-in user is ever stored, also when that user's submissions are
\* processed concurrently.
C8_OneResponsePerUserWithoutRetake ==
    \A i, j \in 1..Len(responses) :
        /\ i # j
        /\ responses[i].quizId = responses[j].quizId
        /\ Has(quizzes, responses[i].quizId)
        /\ ~quizzes[responses[i].quizId].settings.allowRetake
        /\ Has(responses[i], "respondentId")
        /\ Has(responses[j], "respondentId")
        => responses[i].respondentId # responses[j].respondentId

----------------------------------------------------------------------------
(* Grading: one submission to a quiz with a question of every kind. *)

sLowerB == <<"b">>
sTrueLower == <<"t","r","u","e">>
sParisDot == <<"P","a","r","i","s",".">>
sParisSplit == <<"P","a","r"," ","i","s">>
sParisBreak == <<"U+00A0","P","a","r","i","s","\r","\n">>
sOdos == <<"U+039F","U+0394","U+039F","U+03A3">>
sOdosLower == <<"U+03BF","U+03B4","U+03BF","U+03C2">>

\* fill-blank whose stored correctAnswer has capitals and surrounding blanks
P2 == [ id |-> "q2", type |-> "fill-blank", question |-> sAsk,
        correctAnswer |-> sParisPadded, points |-> 3 ]

\* essay that was stored with a correctAnswer
E3 == [ id |-> "q3", type |-> "essay", question |-> sAsk,
        correctAnswer |-> sWhy, points |-> 2 ]

\* multiple-choice stored with points: 0
Z5 == [ id |-> "q5", type |-> "multiple-choice", question |-> sAsk,
        options |-> <<OptA, OptB>>,
        correctAnswer |-> sA, points |-> 0 ]

\* multiple-choice worth 23 of the 40 points of its quiz
H1 == [ Q1 EXCEPT !.points = 23 ]

\* fill-blank whose correctAnswer is in Greek capitals and ends in a sigma
H2 == [ id |-> "q2", type |-> "fill-blank", question |-> sAsk,
        correctAnswer |-> sOdos, points |-> 17 ]

GradeQuestionLists ==
    { <<>>, <<Q1, Q2>>, <<Q1, P2, E3, Q4, Z5>>, <<H1, H2>> }

GradeSettings ==
    { EmptyObj, [allowRetake |-> FALSE, showCorrectAnswers |-> FALSE] }

GradeQuizBodies ==
    { [title |-> sQuiz, questions |-> ql, settings |-> st] :
          ql \in GradeQuestionLists, st \in GradeSettings }

GradeAnswers ==
    { Ans("q1", sB), Ans("q1", sLowerB),
      Ans("q2", sParisLower), Ans("q2", sParis), Ans("q2", sParisDot),
      Ans("q2", sParisSplit), Ans("q2", sParisBreak), Ans("q2", sOdosLower),
      Ans("q3", sWhy) @@ Forged,
      Ans("q4", sTrue), Ans("q4", sTrueLower),
      Ans("q5", sA), Ans("q5", sB),
      Ans("qX", sB) @@ Forged }

GradeBodies ==
    { [answers |-> l] :
          l \in UNION { [1..n -> GradeAnswers] : n \in 0..MaxAnswers } }

InitGrade ==
    /\ quizzes \in { "z1" :> NewQuiz(b, Creator, 0) : b \in GradeQuizBodies }
    /\ responses = <<>>
    /\ req = [s \in Slots |-> Idle]
    /\ view = EmptyObj
    /\ minted = Minted(quizzes, responses)
    /\ OtherIdle

SubmitGrade(s) ==
    \/ \E user \in SubmitUsers, body \in GradeBodies :
           SubmitFind(s, user, "z1", body)
    \/ SubmitDupCheck(s)
    \/ SubmitSave(s)
    \/ SubmitInc(s)

NextGrade == SubmitGrade(1)

SpecGrade == InitGrade /\ [][NextGrade]_vars

\* the stored answers that answer a question of their quiz, as pairs of the
\* response's index and the answer's index
Graded ==
    { t \in UNION { { <<r, a>> : a \in 1..Len(responses[r].answers) } :
                        r \in 1..Len(responses) } :
        /\ Has(quizzes, responses[t[1]].quizId)
        /\ HasQuestion(quizzes[responses[t[1]].quizId],
                       responses[t[1]].answers[t[2]].questionId) }

AnswerOf(t) == responses[t[1]].answers[t[2]]

QuestionOf(t) ==
    FindQuestion(quizzes[responses[t[1]].quizId], AnswerOf(t).questionId)

\* the answer as the client sent it
SentOf(s, i) == req[s].body.answers[i]

\* C11: a stored answer to a multiple-choice or true-false question is
\* graded isCorrect = true exactly when its value is the very string stored
\* as the question's correctAnswer, capitals included; every other value is
\* graded isCorrect = false with pointsEarned = 0.
C11_ChoiceGradedByExactEquality ==
    \A t \in Graded :
        QuestionOf(t).type \in {"multiple-choice", "true-false"} =>
            /\ AnswerOf(t).isCorrect
                   = (AnswerOf(t).answer = QuestionOf(t).correctAnswer)
            /\ AnswerOf(t).answer # QuestionOf(t).correctAnswer =>
                   AnswerOf(t).pointsEarned = 0

C11_Witness ==
    \E t, u \in Graded :
        /\ t[1] = u[1]
        /\ QuestionOf(t).type = "multiple-choice"
        /\ AnswerOf(t).isCorrect
        /\ QuestionOf(u).type = "true-false"
        /\ AnswerOf(u).answer = sTrueLower
        /\ ~AnswerOf(u).isCorrect

\* lowercase(trim(x)), the trim written out
Normalised(x) == ToLowerCase(TrimEnd(TrimStart(x)))

\* C12: a stored answer to a fill-blank question is graded correct exactly
\* when lowercase(trim(answer)) = lowercase(trim(correctAnswer)), nothing
\* else being normalised; so two answers to the same question that differ
\* only in case or surrounding whitespace get the same grade.
C12_FillBlankIgnoresCaseAndOuterSpace ==
    /\ \A t \in Graded :
           QuestionOf(t).type = "fill-blank" =>
               AnswerOf(t).isCorrect
                   = (Normalised(AnswerOf(t).answer)
                          = Normalised(QuestionOf(t).correctAnswer))
    /\ \A t, u \in Graded :
           /\ QuestionOf(t).type = "fill-blank"
           /\ QuestionOf(u) = QuestionOf(t)
           /\ Normalised(AnswerOf(t).answer) = Normalised(AnswerOf(u).answer)
           => AnswerOf(t).isCorrect = AnswerOf(u).isCorrect

C12_Witness ==
    \E t, u \in Graded :
        /\ t[1] = u[1]
        /\ QuestionOf(t).type = "fill-blank"
        /\ QuestionOf(t).correctAnswer = sParisPadded
        /\ AnswerOf(t).answer = sParisLower
        /\ AnswerOf(t).isCorrect
        /\ QuestionOf(u) = QuestionOf(t)
        /\ AnswerOf(u).answer = sParisSplit
        /\ ~AnswerOf(u).isCorrect

\* C13: a stored answer to an essay question is graded isCorrect = false
\* with pointsEarned = 0, whatever was submitted.
C13_EssayNeverCredited ==
    \A t \in Graded :
        QuestionOf(t).type = "essay" =>
            /\ AnswerOf(t).isCorrect = FALSE
            /\ AnswerOf(t).pointsEarned = 0

C13_Witness ==
    \E t \in Graded :
        /\ QuestionOf(t).type = "essay"
        /\ AnswerOf(t).answer = QuestionOf(t).correctAnswer
        /\ SentOf(1, t[2]).isCorrect
        /\ SentOf(1, t[2]).pointsEarned = ForgedPoints
        /\ ~AnswerOf(t).isCorrect

\* C14: for every stored answer to a question of the quiz, pointsEarned is
\* the question's points when isCorrect is true and 0 otherwise, also for a
\* question whose points value is 0.
C14_PointsEarnedIsQuestionPoints ==
    \A t \in Graded :
        AnswerOf(t).pointsEarned =
            IF AnswerOf(t).isCorrect THEN QuestionOf(t).points ELSE 0

\* the sum of pointsEarned over a list of stored answers
RECURSIVE TotalEarned(_)
TotalEarned(answers) ==
    IF answers = <<>>
    THEN 0
    ELSE answers[1].pointsEarned + TotalEarned(Tail(answers))

\* C15: the score of every stored response is the sum of pointsEarned over
\* its answers.
C15_ScoreIsSumOfPointsEarned ==
    \A i \in 1..Len(responses) :
        responses[i].score = TotalEarned(responses[i].answers)

C15_Witness ==
    \E i \in 1..Len(responses) :
        /\ Len(responses[i].answers) = 2
        /\ \A a \in 1..2 : responses[i].answers[a].pointsEarned > 0
        /\ responses[i].score
               = responses[i].answers[1].pointsEarned
                     + responses[i].answers[2].pointsEarned

\* round(score / totalPoints * 100) with the ratio taken exactly: the
\* nearest integer, and the upper of the two at a tie
NearestPercent(score, totalPoints) ==
    (200 * score + totalPoints) \div (2 * totalPoints)

\* C16: the percentage of every stored response is
\* round(score / totalPoints * 100) when totalPoints > 0 and 0 when
\* totalPoints is 0; every submission that a quiz with totalPoints 0 admits
\* is stored and answered without an error, with percentage 0.
C16_PercentageIsRoundedRatio ==
    /\ \A i \in 1..Len(responses) :
           responses[i].percentage =
               IF responses[i].totalPoints > 0
               THEN NearestPercent(responses[i].score,
                                   responses[i].totalPoints)
               ELSE 0
    /\ \A s \in Slots :
           Admitted(s) /\ req[s].quiz.totalPoints = 0
           => /\ Succeeded(s)
              /\ ReplyOf(s).results.percentage = 0

----------------------------------------------------------------------------
(* The life of a quiz: create, update, delete, with submissions between     *)
(* and during them, one action per await.  Slot 1 serves submissions, and   *)
(* updates and deletes of the creator; slot 2 creates, updates and deletes, *)
(* so that a delete overlaps a submission, an update or another delete, and *)
(* two updates overlap.                                                     *)
(* quiz.populate('createdBy', ...) after save() is a step of its own,       *)
(* followed by the reply; the user it reads stands in the model for the     *)
(* populated createdBy.                                                     *)

\* no quiz is created once this many quizzes were stored
MaxQuizzes == 1

\* no update of the questions of a quiz starts once the quiz has this version
MaxVersion == 1

\* the ObjectId of the n-th quiz document stored
QuizIdOf(n) == <<"z1", "z2", "z3", "z4">>[n]

OwnedBy_Anyone(user, id) == Has(quizzes, id)

\* Quiz.findOne({ _id: req.params.id, createdBy: req.user._id }) finds one
OwnedBy(user, id) == Has(quizzes, id) /\ quizzes[id].createdBy = user

\* the requester and the target of an owner's request, kept with its reply
Asked(op, user, id) == [op |-> op, user |-> user, quizId |-> id]

ServerError == ErrorReply(500, "Server error")

\* the uuidv4() calls that formatting the questions of body makes
CallsFor(body) ==
    IF Has(body, "questions")
    THEN Generated(body.questions, Len(body.questions))
    ELSE 0

\* the handler in slot s waits for quiz.populate('createdBy', 'name email')
\* and will reply with status and its own copy doc of the document
Populating(op, user, id, status, doc) ==
    Spread(Asked(op, user, id),
           [pc |-> "populate", status |-> status, doc |-> doc])

\* POST / up to the end of quiz.save(): questions.map throws when the body
\* has no questions; otherwise the document is built and saved under a new
\* ObjectId, unless validation rejects it, which the handler answers with
\* 500
CreateQuiz(s, user, body) ==
    /\ req[s].pc = "idle"
    /\ minted.quiz < MaxQuizzes
    /\ LET id == QuizIdOf(minted.quiz + 1)
           thrown == ~Has(body, "questions")
           quiz == NewQuiz(body, user, minted.uuid)
           stored == ~thrown /\ QuizValid(quiz)
       IN  /\ quizzes' = IF stored THEN (id :> quiz) @@ quizzes ELSE quizzes
           /\ minted' = [minted EXCEPT
                  !.quiz = IF stored THEN @ + 1 ELSE @,
                  !.uuid = @ + CallsFor(body)]
           /\ req' = [req EXCEPT ![s] =
                  IF stored
                  THEN Populating("create", user, id, 201, quiz)
                  ELSE Spread(Asked("create", user, id), Done(ServerError))]
    /\ UNCHANGED <<responses, view, otherVars>>

\* POST / and PUT /:id after save(): quiz.populate has read the creator,
\* and the reply carries the handler's copy of the document, whatever was
\* written to the stored one since
PopulateQuiz(s) ==
    /\ req[s].pc = "populate"
    /\ req' = [req EXCEPT ![s] =
           Spread(Asked(req[s].op, req[s].user, req[s].quizId),
                  Done(Reply(req[s].status, req[s].doc)))]
    /\ UNCHANGED <<quizzes, responses, view, minted, otherVars>>

\* PUT /:id up to the end of Quiz.findOne: 404 unless the requester owns the
\* quiz; otherwise the fields of the body are assigned to the document that
\* was loaded
UpdateFind(s, user, id, body) ==
    /\ req[s].pc = "idle"
    /\ Has(body, "questions") /\ Has(quizzes, id) =>
           quizzes[id].__v < MaxVersion
    /\ IF OwnedBy(user, id)
       THEN /\ req' = [req EXCEPT ![s] =
                    Spread(Asked("update", user, id),
                           [ pc |-> "update",
                             loaded |-> quizzes[id],
                             assigned |-> DOMAIN body,
                             doc |-> UpdateQuizDoc(quizzes[id], body,
                                                   minted.uuid) ])]
            /\ minted' = [minted EXCEPT !.uuid = @ + CallsFor(body)]
       ELSE /\ req' = [req EXCEPT ![s] =
                    Spread(Asked("update", user, id),
                           Done(ErrorReply(404, "Quiz not found")))]
            /\ UNCHANGED minted
    /\ UNCHANGED <<quizzes, responses, view, otherVars>>

\* the value of path k differs between the documents o and p
Differs(o, p, k) == Has(o, k) # Has(p, k) \/ (Has(o, k) /\ o[k] # p[k])

\* the paths save() writes: those whose value is not deep-equal to the
\* loaded one.  The subdocuments of an assigned questions array are cast
\* with new _ids, so the array equals the loaded one only when both are
\* empty
ModifiedPaths(loaded, doc, assigned) ==
    { k \in (DOMAIN loaded \cup DOMAIN doc) \ {"questions"} :
          Differs(loaded, doc, k) }
    \cup { k \in assigned \cap {"questions"} :
               loaded.questions # <<>> \/ doc.questions # <<>> }

\* the stored document after an update that sets the paths to their values
\* in doc, and unsets those doc does not have
SaveWrites(stored, doc, paths) ==
    [ k \in (DOMAIN stored \ paths) \cup (paths \cap DOMAIN doc) |->
        IF k \in paths THEN doc[k] ELSE stored[k] ]

\* save() of a document whose array path is modified: the update carries
\* the version that was loaded in its filter and writes the next one
Versioned(paths) == "questions" \in paths

\* the document after a save() that wrote paths: its version is incremented
\* when the save was versioned
Saved(doc, paths) ==
    IF Versioned(paths) THEN [doc EXCEPT !.__v = @ + 1] ELSE doc

\* PUT /:id, quiz.save(): validation, then the pre-save hook, then the
\* modified paths are written to the stored document.  The save is rejected
\* when validation fails, when the document is no longer stored, or when
\* the save is versioned and the stored version is no longer the loaded
\* one; the handler answers a rejected save with 500
UpdateSave(s) ==
    /\ req[s].pc = "update"
    /\ LET id == req[s].quizId
           doc == QuizPreSave(req[s].doc)
           paths == ModifiedPaths(req[s].loaded, doc, req[s].assigned)
           written == IF Versioned(paths) THEN paths \cup {"__v"} ELSE paths
           rejected ==
               \/ ~QuizValid(req[s].doc)
               \/ ~Has(quizzes, id)
               \/ Versioned(paths) /\ quizzes[id].__v # req[s].loaded.__v
       IN  /\ quizzes' =
                  IF rejected
                  THEN quizzes
                  ELSE [quizzes EXCEPT ![id] =
                            SaveWrites(@, Saved(doc, paths), written)]
           /\ req' = [req EXCEPT ![s] =
                  IF rejected
                  THEN Spread(Asked("update", req[s].user, id),
                              Done(ServerError))
                  ELSE Populating("update", req[s].user, id, 200,
                                  Saved(doc, paths))]
    /\ UNCHANGED <<responses, view, minted, otherVars>>

\* DELETE /:id up to the end of Quiz.findOne: 404 unless the requester owns
\* the quiz
DeleteFind(s, user, id) ==
    /\ req[s].pc = "idle"
    /\ req' = [req EXCEPT ![s] =
           Spread(Asked("delete", user, id),
                  IF OwnedBy(user, id)
                  THEN [pc |-> "remove"]
                  ELSE Done(ErrorReply(404, "Quiz not found")))]
    /\ UNCHANGED <<quizzes, responses, view, minted, otherVars>>

\* Quiz.findByIdAndDelete(req.params.id): the quiz document is removed if
\* it is still stored
DeleteQuiz(s) ==
    /\ req[s].pc = "remove"
    /\ quizzes' = [k \in DOMAIN quizzes \ {req[s].quizId} |-> quizzes[k]]
    /\ req' = [req EXCEPT ![s].pc = "purge"]
    /\ UNCHANGED <<responses, view, minted, otherVars>>

\* QuizResponse.deleteMany({ quizId }) and the reply
DeleteResponses(s) ==
    /\ req[s].pc = "purge"
    /\ responses' =
           SelectSeq(responses, LAMBDA r : r.quizId # req[s].quizId)
    /\ req' = [req EXCEPT ![s] =
           Spread(req[s],
                  Done(Reply(200, [message |-> "Quiz deleted successfully"])))]
    /\ UNCHANGED <<quizzes, view, minted, otherVars>>

\* a question sent without an id
Anon == [ type |-> "fill-blank", question |-> sAsk, correctAnswer |-> sParis ]

\* a question of a type outside the enum
Odd == [ id |-> "q6", type |-> "matching", question |-> sAsk ]

\* a body that save() accepts; its second question has no id yet, and it
\* allows no retake
LifeQuizBodies ==
    { [title |-> sQuizPadded, questions |-> <<Q1, Anon>>,
       settings |-> [allowRetake |-> FALSE]] }

\* bodies that make the handler fail: no questions, a question of an unknown
\* type
BadQuizBodies ==
    { [title |-> sQuiz], [title |-> sQuiz, questions |-> <<Odd>>] }

\* settings that differ from those of the created quiz in every setting the
\* submit handler reads; the schema sets no minimum for passingScore, and
\* with this one the percentage 0 passes
OtherSettings ==
    [ allowRetake |-> TRUE,
      showResults |-> "manual",
      showCorrectAnswers |-> FALSE,
      showExplanations |-> FALSE,
      passingScore |-> -1 ]

\* the last is rejected by save(): a title of white space only
UpdateBodies ==
    { [questions |-> <<Q1, Q2, Z5>>, settings |-> OtherSettings],
      [isActive |-> FALSE],
      [title |-> <<" ">>] }

\* the updates that slot 1 runs while slot 2 runs another
OverlapBodies ==
    { [questions |-> <<Q1, Q2, Z5>>, settings |-> OtherSettings] }

LifeBodies == { [answers |-> <<Ans("q1", sB)>>] }

LifeQuizIds == { QuizIdOf(n) : n \in 1..MaxQuizzes }

InitLife ==
    /\ quizzes = EmptyObj
    /\ responses = <<>>
    /\ req = [s \in Slots |-> Idle]
    /\ view = EmptyObj
    /\ minted = Minted(quizzes, responses)
    /\ OtherIdle

\* the submit route in slot s, requested by the signed-in user u2
SubmitLife(s) ==
    \/ /\ minted.response < MaxStored
       /\ \E id \in LifeQuizIds, body \in LifeBodies :
              SubmitFind(s, "u2", id, body)
    \/ SubmitDupCheck(s)
    \/ SubmitSave(s)
    \/ SubmitInc(s)
    \/ Finish(s)

\* the delete route in slot s, requested by one of askers
RemoveLife(s, askers) ==
    \/ \E user \in askers, id \in LifeQuizIds : DeleteFind(s, user, id)
    \/ DeleteQuiz(s)
    \/ DeleteResponses(s)

\* the update route in slot s, requested by one of askers with one of
\* bodies
UpdateLife(s, askers, bodies) ==
    \/ \E user \in askers, id \in LifeQuizIds, body \in bodies :
           UpdateFind(s, user, id, body)
    \/ UpdateSave(s)

\* the create route in slot s, and the replies of create and update
WriteLife(s) ==
    \/ \E body \in LifeQuizBodies \cup BadQuizBodies :
           CreateQuiz(s, Creator, body)
    \/ PopulateQuiz(s)
    \/ Finish(s)

NextLife ==
    \/ SubmitLife(1)
    \/ RemoveLife(1, {Creator})
    \/ UpdateLife(1, {Creator}, OverlapBodies)
    \/ PopulateQuiz(1)
    \/ WriteLife(2)
    \/ UpdateLife(2, Users, UpdateBodies)
    \/ RemoveLife(2, Users)

SpecLife == InitLife /\ [][NextLife]_vars

\* the step starts a submission in slot s
StartsSubmission(s) ==
    /\ req[s].pc = "idle"
    /\ req'[s].pc # "idle"
    /\ Has(req'[s], "body")

\* C17: a submission to a quiz that does not exist or is inactive is answered
\* at once with an error reply, and that step stores no response and leaves
\* every quiz, responseCount included, as it was.
C17_NoEffectWhenMissingOrInactive ==
    [][ \A s \in Slots :
            /\ StartsSubmission(s)
            /\ \/ ~Has(quizzes, req'[s].quizId)
               \/ ~quizzes[req'[s].quizId].isActive
            => /\ req'[s].pc = "done"
               /\ req'[s].reply.status \in {400, 404}
               /\ responses' = responses
               /\ quizzes' = quizzes ]_vars

\* a submission was refused because its quiz had been deactivated, or
\* deleted, after an earlier submission to it was stored
C17_Witness ==
    \E s \in Slots :
        /\ Replied(s)
        /\ Has(req[s], "body")
        /\ req[s].reply.status \in {400, 404}
        /\ ~Has(req[s], "quiz")
        /\ minted.response > 0

\* C18: for the quiz [Q1 multiple-choice, correct B, 2 points; Q2 fill-blank,
\* correct Paris, 1 point] with passingScore 60, showResults after_submit and
\* showCorrectAnswers true, the submission [{q1,B},{q2,paris}] is answered
\* with score 3, totalPoints 3, percentage 100, passed true and two entries,
\* both isCorrect with correctAnswer set; [{q1,A},{q2,London}] is answered
\* with score 0, percentage 0, passed false.
C18_EndToEnd ==
    \A s \in Slots :
        /\ Succeeded(s)
        /\ req[s].quiz.questions = CastQuestions(<<Q1, Q2>>, 0)
        /\ SettingsOf(s).passingScore = 60
        /\ SettingsOf(s).showResults = "after_submit"
        /\ SettingsOf(s).showCorrectAnswers
        => /\ Submitted(s) = <<Ans("q1", sB), Ans("q2", sParisLower)>> =>
                  /\ ReplyOf(s).results.score = 3
                  /\ ReplyOf(s).results.totalPoints = 3
                  /\ ReplyOf(s).results.percentage = 100
                  /\ ReplyOf(s).results.passed = TRUE
                  /\ Len(ReplyOf(s).detailedResults) = 2
                  /\ \A i \in 1..2 :
                         /\ ReplyOf(s).detailedResults[i].isCorrect
                         /\ Has(ReplyOf(s).detailedResults[i], "correctAnswer")
           /\ Submitted(s) = <<Ans("q1", sA), Ans("q2", sLondon)>> =>
                  /\ ReplyOf(s).results.score = 0
                  /\ ReplyOf(s).results.percentage = 0
                  /\ ReplyOf(s).results.passed = FALSE

\* the sum of the stored points of a list of questions
RECURSIVE TotalOfPoints(_)
TotalOfPoints(questions) ==
    IF questions = <<>>
    THEN 0
    ELSE questions[1].points + TotalOfPoints(Tail(questions))

\* C19: whatever create and update operations were done, the totalPoints of
\* every stored quiz is the sum of the points of its current questions, a
\* question created without points having points 1.
C19_TotalPointsIsSumOfPoints ==
    \A id \in DOMAIN quizzes :
        quizzes[id].totalPoints = TotalOfPoints(quizzes[id].questions)

\* C20: no step changes a stored response: each one is still stored, field
\* for field, after the step, unless its quiz is gone after the step.
C20_StoredResponseImmutable ==
    [][ \A i \in 1..Len(responses) :
            \/ \E j \in 1..Len(responses') : responses'[j] = responses[i]
            \/ ~Has(quizzes', responses[i].quizId) ]_vars

\* two responses are stored, and the quiz of the first has since been given
\* other questions and settings and been deactivated
C20_Witness ==
    /\ Len(responses) = 2
    /\ Has(quizzes, responses[1].quizId)
    /\ ~quizzes[responses[1].quizId].isActive
    /\ quizzes[responses[1].quizId].settings.allowRetake
    /\ quizzes[responses[1].quizId].totalPoints # responses[1].totalPoints
    /\ responses[1].totalPoints > 0

\* the submission in slot s has been graded
IsGraded(s) == Has(req[s], "graded")

\* the entries of the detailed results in the reply to slot s
Details(s) == ReplyOf(s).detailedResults

\* C21: a submission is graded against the one quiz version it read at its
\* start: the version is the stored quiz of that moment, it stays the
\* request's version until the reply, and the graded answers, the totalPoints
\* of the response, the threshold that decides passed and the settings that
\* decide what the reply shows (results, detailed results, and in each entry
\* the correct answer and the explanation) are those of this version,
\* whatever updates of the quiz happen meanwhile.  The percentage compared
\* with the threshold is the 0 the response has before it is saved.
C21_GradedAgainstOneSnapshot ==
    /\ [](\A s \in Slots :
              IsGraded(s) =>
                  /\ req[s].graded = GradeAll(req[s].quiz, Submitted(s))
                  /\ req[s].response.totalPoints = req[s].quiz.totalPoints
                  /\ req[s].response.passed
                         = (0 >= (IF SettingsOf(s).passingScore # 0
                                  THEN SettingsOf(s).passingScore
                                  ELSE 60))
                  /\ Succeeded(s) =>
                         /\ Has(ReplyOf(s), "results")
                                <=> SettingsOf(s).showResults # "manual"
                         /\ Has(ReplyOf(s), "results") =>
                                ReplyOf(s).results.passed
                                    = req[s].response.passed
                         /\ Has(ReplyOf(s), "detailedResults")
                                <=> /\ SettingsOf(s).showResults # "manual"
                                    /\ \/ SettingsOf(s).showCorrectAnswers
                                       \/ SettingsOf(s).showExplanations
                         /\ Has(ReplyOf(s), "detailedResults") =>
                                \A i \in 1..Len(Details(s)) :
                                    LET q == FindQuestion(req[s].quiz,
                                                 Details(s)[i].questionId)
                                    IN  /\ Has(Details(s)[i], "correctAnswer")
                                           <=> /\ SettingsOf(s).showCorrectAnswers
                                               /\ Has(q, "correctAnswer")
                                        /\ Has(Details(s)[i], "explanation")
                                           <=> /\ SettingsOf(s).showExplanations
                                               /\ Has(q, "explanation")
                                               /\ q.explanation # sEmpty)
    /\ [][ \A s \in Slots :
               /\ StartsSubmission(s) /\ Has(req'[s], "quiz") =>
                      req'[s].quiz = quizzes[req'[s].quizId]
               /\ Has(req[s], "quiz") /\ req'[s].pc # "idle" =>
                      req'[s].quiz = req[s].quiz ]_vars

\* a submission was answered with the results, the correct answer and the
\* explanation that the version it read shows, not passed under that
\* version's threshold, and stored with that version's totalPoints, while
\* the stored quiz has since got other questions, another totalPoints, a
\* threshold under which it would have passed, and settings that show
\* nothing
C21_Witness ==
    \E s \in Slots :
        /\ IsGraded(s)
        /\ Succeeded(s)
        /\ Has(req[s].response, "id")
        /\ Has(quizzes, req[s].quizId)
        /\ quizzes[req[s].quizId].totalPoints # req[s].quiz.totalPoints
        /\ quizzes[req[s].quizId].questions # req[s].quiz.questions
        /\ req[s].response.totalPoints = req[s].quiz.totalPoints
        /\ ~req[s].response.passed
        /\ quizzes[req[s].quizId].settings.passingScore < 0
        /\ quizzes[req[s].quizId].settings.showResults = "manual"
        /\ ~quizzes[req[s].quizId].settings.showCorrectAnswers
        /\ ~quizzes[req[s].quizId].settings.showExplanations
        /\ Has(ReplyOf(s), "results")
        /\ Has(ReplyOf(s), "detailedResults")
        /\ \E i \in 1..Len(Details(s)) :
               /\ Has(Details(s)[i], "correctAnswer")
               /\ Has(Details(s)[i], "explanation")

\* C26: once the delete of a quiz has completed, no stored response refers to
\* the quiz, also when a submission to the quiz was in flight during the
\* delete.
C26_NoResponseOfDeletedQuiz ==
    \A i \in 1..Len(responses) :
        \/ Has(quizzes, responses[i].quizId)
        \/ \E s \in Slots :
               req[s].pc = "purge" /\ req[s].quizId = responses[i].quizId

\* the step starts an update or delete request of user for quiz id
OwnerRequest(s, user, id) ==
    /\ req[s].pc = "idle"
    /\ Has(req'[s], "op")
    /\ req'[s].op \in {"update", "delete"}
    /\ req'[s].user = user
    /\ req'[s].quizId = id

\* the step is a later step of an update or delete request of user for
\* quiz id
OwnerStep(s, user, id) ==
    /\ Has(req[s], "op")
    /\ req[s].op \in {"update", "delete"}
    /\ req[s].user = user
    /\ req[s].quizId = id
    /\ req'[s].pc # req[s].pc

\* what the creator defines of a quiz: everything but the response counter
DefinitionOf(quiz) == [k \in DOMAIN quiz \ {"responseCount"} |-> quiz[k]]

\* C27: an update or delete request for a quiz from a user who is not its
\* creator is answered with 404 in that step, which leaves all quizzes and
\* all stored responses unchanged; and whenever a step changes what a quiz
\* defines, or removes the quiz, that step is a step of a request of the
\* quiz's creator.
C27_OnlyCreatorChangesQuiz ==
    [][ /\ \A s \in Slots, user \in Users, id \in DOMAIN quizzes :
               OwnerRequest(s, user, id) /\ user # quizzes[id].createdBy =>
                   /\ req'[s].pc = "done"
                   /\ req'[s].reply.status = 404
                   /\ quizzes' = quizzes
                   /\ responses' = responses
        /\ \A id \in DOMAIN quizzes :
               \/ ~Has(quizzes', id)
               \/ DefinitionOf(quizzes'[id]) # DefinitionOf(quizzes[id])
               => \E s \in Slots :
                      OwnerStep(s, quizzes[id].createdBy, id) ]_vars

\* another user's delete request was refused while the quiz had a stored
\* response
C27_Witness ==
    \E s \in Slots :
        /\ Replied(s)
        /\ Has(req[s], "op")
        /\ req[s].op = "delete"
        /\ req[s].reply.status = 404
        /\ Has(quizzes, req[s].quizId)
        /\ req[s].user # quizzes[req[s].quizId].createdBy
        /\ \E i \in 1..Len(responses) : responses[i].quizId = req[s].quizId

----------------------------------------------------------------------------
(* A quiz protected by a secret code: get-quiz and submissions.  The code   *)
(* a requester holds travels as ?code=...; the submit handler reads only    *)
(* answers, completionTime and respondentEmail of the body and no query.    *)

SecretQuizBodies ==
    { [title |-> sQuiz, questions |-> <<Q1, Q2>>, secretCode |-> "s1",
       settings |-> st] :
          st \in { EmptyObj, [allowRetake |-> FALSE] } }

\* a submission together with the code its sender holds, if any
SecretBodies ==
    { [answers |-> l] @@ c :
          l \in { <<>>, <<Ans("q1", sB)>> },
          c \in { EmptyObj } \cup { [code |-> k] : k \in SecretCodes } }

InitSecret ==
    /\ quizzes \in { "z1" :> NewQuiz(b, Creator, 0) : b \in SecretQuizBodies }
    /\ responses = <<>>
    /\ req = [s \in Slots |-> Idle]
    /\ view = EmptyObj
    /\ minted = Minted(quizzes, responses)
    /\ OtherIdle

SubmitSecret(s) ==
    \/ \E user \in SubmitUsers, body \in SecretBodies :
           SubmitFind(s, user, "z1", body)
    \/ SubmitDupCheck(s)
    \/ SubmitSave(s)
    \/ SubmitInc(s)

NextSecret ==
    \/ SubmitSecret(1)
    \/ \E user \in SubmitUsers, identifier \in ObjectIds,
          code \in SecretCodes \cup {NoCode} :
           GetQuiz(user, identifier, code)
    \/ GetQuizByCode

SpecSecret == InitSecret /\ [][NextSecret]_vars

\* the request of slot s has stored a response
Stored(s) == Has(req[s], "response") /\ Has(req[s].response, "id")

\* C22: no response is stored for a submission to a quiz protected by a
\* secret code unless the request carries the quiz's code.
C22_SecretCodeRequiredToSubmit ==
    \A s \in Slots :
        Stored(s) /\ Has(req[s].quiz, "secretCode") =>
            /\ Has(req[s].body, "code")
            /\ req[s].body.code = req[s].quiz.secretCode

----------------------------------------------------------------------------
(* Submissions of a client that sends only questionId and answer, each for  *)
(* a question of the quiz, possibly the same question more than once.       *)

HonestAnswers == { Ans("q1", sB), Ans("q1", sA), Ans("q2", sParis) }

HonestBodies ==
    { [answers |-> l] :
          l \in UNION { [1..n -> HonestAnswers] : n \in 0..MaxAnswers } }

InitHonest ==
    /\ quizzes \in
           { "z1" :> NewQuiz([title |-> sQuiz, questions |-> <<Q1, Q2>>,
                              settings |-> st], Creator, 0) :
                 st \in SettingsInputs }
    /\ responses = <<>>
    /\ req = [s \in Slots |-> Idle]
    /\ view = EmptyObj
    /\ minted = Minted(quizzes, responses)
    /\ OtherIdle

SubmitHonest(s) ==
    \/ \E user \in SubmitUsers, body \in HonestBodies :
           SubmitFind(s, user, "z1", body)
    \/ SubmitDupCheck(s)
    \/ SubmitSave(s)
    \/ SubmitInc(s)

NextHonest == SubmitHonest(1)

SpecHonest == InitHonest /\ [][NextHonest]_vars

\* C23: every stored response has 0 <= score <= totalPoints and
\* 0 <= percentage <= 100, whatever list of answers was submitted, lists
\* that name a questionId twice included.
C23_ScoreAndPercentageInRange ==
    \A i \in 1..Len(responses) :
        /\ 0 <= responses[i].score
        /\ responses[i].score <= responses[i].totalPoints
        /\ 0 <= responses[i].percentage
        /\ responses[i].percentage <= 100

\* C24: when the submit handler has replied with an error, no response of
\* that request is stored and the quiz's responseCount was not incremented.
C24_ErrorReplyLeavesNoTrace ==
    \A s \in Slots :
        Replied(s) /\ req[s].reply.status # 201 =>
            /\ ~Stored(s)
            /\ \A id \in DOMAIN quizzes : quizzes[id].responseCount = 0

\* every error reply under Spec, C24 apart from its cause: the answers hold
\* an unmatched questionId and detail is shown (C3), or nothing was stored
ErrorRepliesExplained ==
    \A s \in Slots :
        Replied(s) /\ req[s].reply.status # 201 /\ Stored(s) =>
            /\ \E i \in 1..Len(Submitted(s)) : Unmatched(s, i)
            /\ ShowsResults(req[s].quiz) /\ ShowsDetails(req[s].quiz)

-----------------------------------------------------------------------------
(* The quiz-taking client (components/QuizTaker.tsx): one mounted component,
   its React state, the interval of its timer effect and the submission
   requests it has sent. *)

\* the longest time limit of a quiz, in minutes
MaxTimeLimit == 1

\* the most clicks on Submit Quiz followed in one attempt
MaxClicks == 2

\* useState<Quiz | null>(null)
NoQuiz == "null"

\* no interval is running
NoTimer == EmptyObj

\* nothing but the quiz-taking client is in use
QuizIdle ==
    /\ quizzes = EmptyObj
    /\ responses = <<>>
    /\ req = [s \in Slots |-> Idle]
    /\ view = EmptyObj
    /\ minted = Minted(quizzes, responses)

\* lines 63-77: the state of a freshly mounted component; results and error
\* are kept as "is set", posts counts the submission requests sent and
\* inFlight those not yet answered
Mounted ==
    [ quiz |-> NoQuiz, loading |-> TRUE, error |-> FALSE,
      timeRemaining |-> 0, quizStarted |-> FALSE, quizCompleted |-> FALSE,
      submitting |-> FALSE, results |-> FALSE,
      timer |-> NoTimer, clicks |-> 0, posts |-> 0, inFlight |-> 0 ]

\* the values of submitting and quizCompleted that the functions of one
\* render see
Closure(t) == [ submitting |-> t.submitting, quizCompleted |-> t.quizCompleted ]

\* lines 88-108, run after a render that changed quizStarted or
\* timeRemaining: the old interval is cleared, and a new one is set while
\* the quiz runs; its callback holds the handleTimeUp of that render
TimerEffect(t) ==
    [ t EXCEPT !.timer = IF t.quizStarted /\ t.timeRemaining > 0
                            THEN Closure(t) ELSE NoTimer ]

\* lines 165-202 up to the await of axios.post, called with the submitting
\* value its closure holds
HandleSubmit(t, seen) ==
    IF t.quiz = NoQuiz \/ seen.submitting
        THEN t
        ELSE [ t EXCEPT !.submitting = TRUE,
                        !.posts = @ + 1,
                        !.inFlight = @ + 1 ]

\* lines 159-163, called with the values its closure holds
HandleTimeUp(t, seen) ==
    IF ~seen.quizCompleted THEN HandleSubmit(t, seen) ELSE t

\* lines 301, 320, 474: the question screen with its navigation is shown
ShowsQuestions(t) ==
    /\ ~t.loading
    /\ ~(t.error \/ t.quiz = NoQuiz)
    /\ ~(t.quizCompleted /\ t.results)
    /\ t.quizStarted

\* lines 110-120: the quiz arrives; timeLimit is in minutes
FetchResolved(limit) ==
    /\ taker.loading
    /\ taker' = [ taker EXCEPT !.quiz = "z1",
                               !.timeRemaining = limit * 60,
                               !.loading = FALSE ]
    /\ UNCHANGED <<quizVars, forms, formResponses, freq, users, builder>>

\* lines 115-119: the quiz does not arrive
FetchRejected ==
    /\ taker.loading
    /\ taker' = [ taker EXCEPT !.error = TRUE, !.loading = FALSE ]
    /\ UNCHANGED <<quizVars, forms, formResponses, freq, users, builder>>

\* lines 122-126 and 474: Start Quiz on the start screen
StartQuiz ==
    /\ ~taker.loading
    /\ ~(taker.error \/ taker.quiz = NoQuiz)
    /\ ~(taker.quizCompleted /\ taker.results)
    /\ ~taker.quizStarted
    /\ taker' = TimerEffect([ taker EXCEPT !.quizStarted = TRUE ])
    /\ UNCHANGED <<quizVars, forms, formResponses, freq, users, builder>>

\* lines 90-98: the interval fires; at the last second the handleTimeUp of
\* the interval's render runs, and the changed timeRemaining runs the effect
\* again
Tick ==
    /\ taker.timer # NoTimer
    /\ taker' =
         IF taker.timeRemaining <= 1
             THEN TimerEffect([ HandleTimeUp(taker, taker.timer)
                                    EXCEPT !.timeRemaining = 0 ])
             ELSE TimerEffect([ taker EXCEPT !.timeRemaining = @ - 1 ])
    /\ UNCHANGED <<quizVars, forms, formResponses, freq, users, builder>>

\* lines 610-612: a click on Submit Quiz, which is disabled while
\* submitting; the handler is the handleSubmit of the current render
ClickSubmit ==
    /\ ShowsQuestions(taker)
    /\ ~taker.submitting
    /\ taker.clicks < MaxClicks
    /\ taker' = [ HandleSubmit(taker, Closure(taker)) EXCEPT !.clicks = @ + 1 ]
    /\ UNCHANGED <<quizVars, forms, formResponses, freq, users, builder>>

\* lines 188-195 and 199-201: a submission request is answered 201, with or
\* without results (routes/quizzes.js lines 248-261)
SubmitResolved(withResults) ==
    /\ taker.inFlight > 0
    /\ taker' = [ taker EXCEPT !.inFlight = @ - 1,
                               !.quizCompleted = TRUE,
                               !.results = @ \/ withResults,
                               !.submitting = FALSE ]
    /\ UNCHANGED <<quizVars, forms, formResponses, freq, users, builder>>

\* lines 196-201: a submission request fails
SubmitRejected ==
    /\ taker.inFlight > 0
    /\ taker' = [ taker EXCEPT !.inFlight = @ - 1,
                               !.error = TRUE,
                               !.submitting = FALSE ]
    /\ UNCHANGED <<quizVars, forms, formResponses, freq, users, builder>>

InitTaker ==
    /\ QuizIdle
    /\ forms = EmptyObj
    /\ formResponses = <<>>
    /\ freq = [s \in Slots |-> Idle]
    /\ users = EmptyObj
    /\ taker = Mounted
    /\ builder = EmptyObj

NextTaker ==
    \/ \E limit \in 1..MaxTimeLimit : FetchResolved(limit)
    \/ FetchRejected
    \/ StartQuiz
    \/ Tick
    \/ ClickSubmit
    \/ \E withResults \in BOOLEAN : SubmitResolved(withResults)
    \/ SubmitRejected

SpecTaker == InitTaker /\ [][NextTaker]_vars

\* C28: the quiz-taking client sends at most one submission request per quiz
\* attempt, whether submissions are started by a click on Submit Quiz or by
\* the timer reaching 0.
C28_AtMostOneSubmissionPerAttempt ==
    taker # EmptyObj => taker.posts <= 1

-----------------------------------------------------------------------------
(* The forms and their responses (routes/forms.js, routes/responses.js,
   routes/admin.js, models/Form.js, models/Response.js): creating, updating
   and deleting a form, submitting a response to a form and deleting one,
   one action per await, with requests of two slots interleaved. *)

\* the _id of the administrator made by createDefaultAdmin
Admin == "admin"

\* no form is created once this many forms were stored
MaxForms == 1

\* the ObjectId of the n-th form document stored
FormIdOf(n) == <<"f1", "f2", "f3">>[n]

FormIds == { FormIdOf(n) : n \in 1..MaxForms }

\* a form id that no form has
MissingForm == "f0"

FormQuestionTypes ==
    { "text", "textarea", "select", "radio", "checkbox", "email", "number",
      "date", "file" }

\* models/Form.js questionSchema: required defaults to false, options is an
\* array
CastFormQuestion(q) == Spread([required |-> FALSE, options |-> <<>>], q)

\* the questions path of a Form document set from request data, when
\* uuidv4() was called used times before
CastFormQuestions(qs, used) ==
    LET formatted == FormatQuestions(qs, used)
    IN  [i \in 1..Len(formatted) |-> CastFormQuestion(formatted[i])]

FormSettingsDefaults ==
    [ showProgressBar |-> TRUE,
      shuffleQuestions |-> FALSE,
      confirmationMessage |-> "Thank you for your response!" ]

\* formSchema.settings: every setting has a default
CastFormSettings(st) == Spread(FormSettingsDefaults, st)

\* questionSchema: id, type and question are required strings, type is one
\* of the enum
FormQuestionValid(q) ==
    /\ Has(q, "id") /\ q.id # ""
    /\ Has(q, "type") /\ q.type \in FormQuestionTypes
    /\ Has(q, "question") /\ q.question # <<>>

\* document validation run by save(): title is required and every question
\* is valid; createdBy is always set
FormValid(form) ==
    /\ Has(form, "title") /\ form.title # <<>>
    /\ \A i \in 1..Len(form.questions) : FormQuestionValid(form.questions[i])

\* forms.js lines 82-90: new Form({...}) with the schema's defaults, when
\* uuidv4() was called used times before
CreatedForm(id, body, user, used) ==
    Trimmed(body, "title") @@ Trimmed(body, "description") @@
    [ _id |-> id,
      questions |-> CastFormQuestions(body.questions, used),
      createdBy |-> user,
      isPublic |-> ~(Has(body, "isPublic") /\ body.isPublic = FALSE),
      isActive |-> TRUE,
      allowMultipleResponses |-> TRUE,
      collectEmail |-> FALSE,
      requireSignIn |-> FALSE,
      responseCount |-> 0,
      settings |-> CastFormSettings(IF Has(body, "settings")
                                    THEN body.settings ELSE EmptyObj),
      __v |-> 0 ] @@ SecretOf(body)

\* models/Form.js: a stored form; no route sets allowMultipleResponses or
\* requireSignIn, the schema admits both values
NewForm(id, user, multiple, signIn) ==
    [ CreatedForm(id, [title |-> sQuiz, questions |-> <<>>], user, 0)
      EXCEPT !.allowMultipleResponses = multiple, !.requireSignIn = signIn ]

\* forms.js lines 158-172: the fields present in the body are assigned to
\* the form that was loaded, when uuidv4() was called used times before
UpdateFormDoc(form, body, used) ==
    LET f0 == Trimmed(body, "title") @@ Trimmed(body, "description") @@ form
        f1 == IF Has(body, "questions")
              THEN [f0 EXCEPT !.questions =
                        CastFormQuestions(body.questions, used)]
              ELSE f0
        f2 == IF Has(body, "isPublic")
              THEN [f1 EXCEPT !.isPublic = body.isPublic] ELSE f1
        f3 == IF Has(body, "secretCode")
              THEN SecretOf(body) @@
                   [k \in DOMAIN f2 \ {"secretCode"} |-> f2[k]]
              ELSE f2
        f4 == IF Has(body, "settings")
              THEN [f3 EXCEPT !.settings =
                        CastFormSettings(Spread(f3.settings, body.settings))]
              ELSE f3
        f5 == IF Has(body, "isActive")
              THEN [f4 EXCEPT !.isActive = body.isActive] ELSE f4
    IN  f5

\* models/Response.js lines 3-20: questionId, question and questionType are
\* required strings, which the empty string does not satisfy; answer is a
\* required Mixed, which any value but null and undefined satisfies
ValidFormAnswer(a) ==
    /\ \A k \in {"questionId", "question", "questionType"} :
           Has(a, k) /\ a[k] # ""
    /\ Has(a, "answer")

\* models/Response.js lines 22-27 and 36: validation on save
ValidFormResponse(doc) ==
    /\ Has(doc, "formId")
    /\ \A i \in 1..Len(doc.answers) : ValidFormAnswer(doc.answers[i])

\* lines 41-49: new Response({ formId, answers, respondentId, ... }); an
\* undefined respondentId is not stored
NewFormResponse(id, formId, answers, user) ==
    LET core == [ _id |-> id, formId |-> formId, answers |-> answers,
                  isComplete |-> TRUE ]
    IN  IF user = NoUser THEN core ELSE core @@ [ respondentId |-> user ]

\* Response.findOne({ formId, respondentId }) finds a document
RespondedBefore(formId, user) ==
    \E i \in 1..Len(formResponses) :
        /\ formResponses[i].formId = formId
        /\ Has(formResponses[i], "respondentId")
        /\ formResponses[i].respondentId = user

\* the stored responses whose _id is id
FindResponse(id) ==
    { i \in 1..Len(formResponses) : formResponses[i]._id = id }

\* Form.findByIdAndUpdate(id, { $inc: { responseCount: by } })
IncResponseCount(fs, id, by) ==
    IF Has(fs, id)
        THEN [ fs EXCEPT ![id].responseCount = @ + by ]
        ELSE fs

\* lines 11-38 up to the next await: Form.findById and the checks on it
FormSubmitFind(s, user, formId, answers) ==
    /\ freq[s].pc = "idle"
    /\ minted.formResponse < MaxStored
    /\ LET call == [ user |-> user, formId |-> formId, answers |-> answers ]
       IN  freq' = [ freq EXCEPT ![s] =
             IF ~Has(forms, formId)
                 THEN Done(ErrorReply(404, "Form not found"))
             ELSE IF ~forms[formId].isActive
                 THEN Done(ErrorReply(400, "Form is no longer active"))
             ELSE IF forms[formId].requireSignIn /\ user = NoUser
                 THEN Done(ErrorReply(401, "Sign in required"))
             ELSE IF ~forms[formId].allowMultipleResponses /\ user # NoUser
                 THEN call @@ [ pc |-> "check" ]
             ELSE call @@ [ pc |-> "save" ] ]
    /\ UNCHANGED <<quizVars, forms, formResponses, users, taker, builder>>

\* lines 30-37: Response.findOne for an earlier response of the user
FormSubmitDupCheck(s) ==
    /\ freq[s].pc = "check"
    /\ freq' = [ freq EXCEPT ![s] =
         IF RespondedBefore(freq[s].formId, freq[s].user)
             THEN Done(ErrorReply(400,
                          "You have already responded to this form"))
             ELSE [ freq[s] EXCEPT !.pc = "save" ] ]
    /\ UNCHANGED <<quizVars, forms, formResponses, users, taker, builder>>

\* lines 41-51: new Response and response.save(); a validation error is
\* caught at line 63
FormSubmitSave(s) ==
    /\ freq[s].pc = "save"
    /\ LET id  == minted.formResponse + 1
           doc == NewFormResponse(id, freq[s].formId, freq[s].answers,
                                  freq[s].user)
       IN  IF ValidFormResponse(doc)
               THEN /\ formResponses' = Append(formResponses, doc)
                    /\ minted' = [ minted EXCEPT !.formResponse = id ]
                    /\ freq' = [ freq EXCEPT ![s] =
                                   [ freq[s] EXCEPT !.pc = "inc" ]
                                       @@ [ responseId |-> id ] ]
               ELSE /\ freq' = [ freq EXCEPT ![s] =
                                   Done(ErrorReply(500, "Server error")) ]
                    /\ UNCHANGED <<formResponses, minted>>
    /\ UNCHANGED <<quizzes, responses, req, view, forms, users, taker,
                   builder>>

\* lines 54-61: $inc responseCount by 1 and the 201 reply
FormSubmitInc(s) ==
    /\ freq[s].pc = "inc"
    /\ forms' = IncResponseCount(forms, freq[s].formId, 1)
    /\ freq' = [ freq EXCEPT ![s] =
         Done(Reply(201, [ message |-> "Response submitted successfully",
                           responseId |-> freq[s].responseId ])) ]
    /\ UNCHANGED <<quizVars, formResponses, users, taker, builder>>

\* lines 179-182: Response.findById
ResponseDeleteFind(s, user, id) ==
    /\ freq[s].pc = "idle"
    /\ freq' = [ freq EXCEPT ![s] =
         IF FindResponse(id) = {}
             THEN Done(ErrorReply(404, "Response not found"))
             ELSE [ pc |-> "owner", user |-> user, id |-> id,
                    formId |-> formResponses[CHOOSE i \in FindResponse(id) :
                                                 TRUE].formId ] ]
    /\ UNCHANGED <<quizVars, forms, formResponses, users, taker, builder>>

\* lines 185-192: Form.findOne({ _id: response.formId, createdBy })
ResponseDeleteOwner(s) ==
    /\ freq[s].pc = "owner"
    /\ freq' = [ freq EXCEPT ![s] =
         IF /\ Has(forms, freq[s].formId)
            /\ forms[freq[s].formId].createdBy = freq[s].user
             THEN [ freq[s] EXCEPT !.pc = "remove" ]
             ELSE Done(ErrorReply(403, "Access denied")) ]
    /\ UNCHANGED <<quizVars, forms, formResponses, users, taker, builder>>

\* line 194: Response.findByIdAndDelete
ResponseDeleteRemove(s) ==
    /\ freq[s].pc = "remove"
    /\ formResponses' =
         SelectSeq(formResponses, LAMBDA r : r._id # freq[s].id)
    /\ freq' = [ freq EXCEPT ![s].pc = "dec" ]
    /\ UNCHANGED <<quizVars, forms, users, taker, builder>>

\* lines 197-201: $inc responseCount by -1 and the reply
ResponseDeleteDec(s) ==
    /\ freq[s].pc = "dec"
    /\ forms' = IncResponseCount(forms, freq[s].formId, -1)
    /\ freq' = [ freq EXCEPT ![s] =
         Done(Reply(200, [ message |-> "Response deleted successfully" ])) ]
    /\ UNCHANGED <<quizVars, formResponses, users, taker, builder>>

\* the requester and the target of a request on a form, kept with its reply
AskedForm(op, user, id) == [op |-> op, user |-> user, formId |-> id]

\* Form.findOne({ _id: req.params.id, createdBy: req.user._id }) finds one
OwnsForm(user, id) == Has(forms, id) /\ forms[id].createdBy = user

\* forms.js lines 72-92, POST / up to the end of form.save(): questions.map
\* throws when the body has no questions; otherwise the form is built and
\* saved under a new ObjectId, unless validation rejects it, which the
\* handler answers with 500
FormCreate(s, user, body) ==
    /\ freq[s].pc = "idle"
    /\ minted.form < MaxForms
    /\ LET id == FormIdOf(minted.form + 1)
           thrown == ~Has(body, "questions")
           form == CreatedForm(id, body, user, minted.uuid)
           stored == ~thrown /\ FormValid(form)
       IN  /\ forms' = IF stored THEN (id :> form) @@ forms ELSE forms
           /\ minted' = [minted EXCEPT
                  !.form = IF stored THEN @ + 1 ELSE @,
                  !.uuid = @ + CallsFor(body)]
           /\ freq' = [freq EXCEPT ![s] =
                  IF stored
                  THEN Spread(AskedForm("create", user, id),
                              [pc |-> "fpopulate", status |-> 201,
                               doc |-> form])
                  ELSE Spread(AskedForm("create", user, id),
                              Done(ServerError))]
    /\ UNCHANGED <<quizzes, responses, req, view, formResponses, users,
                   taker, builder>>

\* forms.js lines 93-95 and 175-177: form.populate has read the creator,
\* and the reply carries the handler's copy of the form
FormPopulate(s) ==
    /\ freq[s].pc = "fpopulate"
    /\ freq' = [freq EXCEPT ![s] =
           Spread(AskedForm(freq[s].op, freq[s].user, freq[s].formId),
                  Done(Reply(freq[s].status, freq[s].doc)))]
    /\ UNCHANGED <<quizVars, forms, formResponses, users, taker, builder>>

\* forms.js lines 147-172, PUT /:id up to the end of Form.findOne: 404
\* unless the requester owns the form; otherwise the fields of the body are
\* assigned to the form that was loaded
FormUpdateFind(s, user, id, body) ==
    /\ freq[s].pc = "idle"
    /\ Has(body, "questions") /\ Has(forms, id) => forms[id].__v < MaxVersion
    /\ IF OwnsForm(user, id)
       THEN /\ freq' = [freq EXCEPT ![s] =
                    Spread(AskedForm("update", user, id),
                           [ pc |-> "fsave",
                             loaded |-> forms[id],
                             assigned |-> DOMAIN body,
                             doc |-> UpdateFormDoc(forms[id], body,
                                                   minted.uuid) ])]
            /\ minted' = [minted EXCEPT !.uuid = @ + CallsFor(body)]
       ELSE /\ freq' = [freq EXCEPT ![s] =
                    Spread(AskedForm("update", user, id),
                           Done(ErrorReply(404, "Form not found")))]
            /\ UNCHANGED minted
    /\ UNCHANGED <<quizzes, responses, req, view, forms, formResponses,
                   users, taker, builder>>

\* forms.js line 174, form.save(): validation, then the modified paths are
\* written to the stored form.  The save is rejected when validation fails,
\* when the form is no longer stored, or when the save is versioned and the
\* stored version is no longer the loaded one; the handler answers a
\* rejected save with 500
FormUpdateSave(s) ==
    /\ freq[s].pc = "fsave"
    /\ LET id == freq[s].formId
           doc == freq[s].doc
           paths == ModifiedPaths(freq[s].loaded, doc, freq[s].assigned)
           written == IF Versioned(paths) THEN paths \cup {"__v"} ELSE paths
           rejected ==
               \/ ~FormValid(doc)
               \/ ~Has(forms, id)
               \/ Versioned(paths) /\ forms[id].__v # freq[s].loaded.__v
       IN  /\ forms' =
                  IF rejected
                  THEN forms
                  ELSE [forms EXCEPT ![id] =
                            SaveWrites(@, Saved(doc, paths), written)]
           /\ freq' = [freq EXCEPT ![s] =
                  IF rejected
                  THEN Spread(AskedForm("update", freq[s].user, id),
                              Done(ServerError))
                  ELSE Spread(AskedForm("update", freq[s].user, id),
                              [pc |-> "fpopulate", status |-> 200,
                               doc |-> Saved(doc, paths)])]
    /\ UNCHANGED <<quizVars, formResponses, users, taker, builder>>

\* forms.js lines 185-194, DELETE /:id up to the end of Form.findOne: 404
\* unless the requester owns the form
FormDeleteFind(s, user, id) ==
    /\ freq[s].pc = "idle"
    /\ freq' = [freq EXCEPT ![s] =
           Spread(AskedForm("delete", user, id),
                  IF OwnsForm(user, id)
                  THEN [pc |-> "fremove"]
                  ELSE Done(ErrorReply(404, "Form not found")))]
    /\ UNCHANGED <<quizVars, forms, formResponses, users, taker, builder>>

\* forms.js line 196: Form.findByIdAndDelete(req.params.id) removes the form
\* if it is still stored
FormDeleteRemove(s) ==
    /\ freq[s].pc = "fremove"
    /\ forms' = [k \in DOMAIN forms \ {freq[s].formId} |-> forms[k]]
    /\ freq' = [freq EXCEPT ![s].pc = "fpurge"]
    /\ UNCHANGED <<quizVars, formResponses, users, taker, builder>>

\* admin.js lines 134-140, DELETE /admin/forms/:id up to the end of
\* Form.findByIdAndDelete: the form is removed whoever created it, 404 when
\* there is none
AdminDeleteForm(s, id) ==
    /\ freq[s].pc = "idle"
    /\ forms' = [k \in DOMAIN forms \ {id} |-> forms[k]]
    /\ freq' = [freq EXCEPT ![s] =
           Spread(AskedForm("admin-delete", Admin, id),
                  IF Has(forms, id)
                  THEN [pc |-> "fpurge"]
                  ELSE Done(ErrorReply(404, "Form not found")))]
    /\ UNCHANGED <<quizVars, formResponses, users, taker, builder>>

\* forms.js lines 197-199 and admin.js lines 143-145:
\* Response.deleteMany({ formId }) and the reply
FormDeletePurge(s) ==
    /\ freq[s].pc = "fpurge"
    /\ formResponses' =
           SelectSeq(formResponses, LAMBDA r : r.formId # freq[s].formId)
    /\ freq' = [freq EXCEPT ![s] =
           Spread(AskedForm(freq[s].op, freq[s].user, freq[s].formId),
                  Done(Reply(200, [message |-> "Form deleted successfully"])))]
    /\ UNCHANGED <<quizVars, forms, users, taker, builder>>

\* the reply is sent and the slot is free for the next request
FormFinish(s) ==
    /\ freq[s].pc = "done"
    /\ freq' = [ freq EXCEPT ![s] = Idle ]
    /\ UNCHANGED <<quizVars, forms, formResponses, users, taker, builder>>

FormAnswer == [ questionId |-> "q1", question |-> "Name", answer |-> "Ann",
                questionType |-> "text" ]

\* lists of answers: none, one whose answer is the empty string, one
\* without its questionType
FormAnswerLists ==
    { <<>>, << [ FormAnswer EXCEPT !.answer = "" ] >>,
      << [ questionId |-> "q1", question |-> "Name", answer |-> "Ann" ] >> }

\* a form question sent without an id
FormQuestion == [ type |-> "text", question |-> sAsk ]

\* bodies of POST /forms: one that save() accepts, one without questions
FormBodies ==
    { [title |-> sQuizPadded, questions |-> <<FormQuestion>>],
      [title |-> sQuiz] }

\* bodies of PUT /forms/:id; the last is rejected by save()
FormUpdateBodies ==
    { [isActive |-> FALSE], [isActive |-> TRUE],
      [questions |-> <<>>], [title |-> <<" ">>] }

InitForm ==
    /\ quizzes = EmptyObj
    /\ responses = <<>>
    /\ req = [s \in Slots |-> Idle]
    /\ view = EmptyObj
    /\ forms \in { EmptyObj } \cup
                  { "f1" :> NewForm("f1", Creator, multiple, signIn) :
                        multiple \in BOOLEAN, signIn \in BOOLEAN }
    /\ minted = [ formResponse |-> 0, form |-> Cardinality(DOMAIN forms) ]
                    @@ Minted(quizzes, responses)
    /\ formResponses = <<>>
    /\ freq = [s \in Slots |-> Idle]
    /\ users = EmptyObj
    /\ taker = EmptyObj
    /\ builder = EmptyObj

FormRequest(s) ==
    \/ \E user \in SubmitUsers, formId \in FormIds \cup {MissingForm},
          answers \in FormAnswerLists :
           FormSubmitFind(s, user, formId, answers)
    \/ FormSubmitDupCheck(s)
    \/ FormSubmitSave(s)
    \/ FormSubmitInc(s)
    \/ \E user \in Users, id \in 1..MaxStored :
           ResponseDeleteFind(s, user, id)
    \/ ResponseDeleteOwner(s)
    \/ ResponseDeleteRemove(s)
    \/ ResponseDeleteDec(s)
    \/ FormFinish(s)

\* a request on a form in slot s: create, update and delete by a user,
\* delete by the administrator
FormOwnerRequest(s) ==
    \/ \E body \in FormBodies : FormCreate(s, Creator, body)
    \/ FormPopulate(s)
    \/ \E user \in Users, id \in FormIds, body \in FormUpdateBodies :
           FormUpdateFind(s, user, id, body)
    \/ FormUpdateSave(s)
    \/ \E user \in Users, id \in FormIds : FormDeleteFind(s, user, id)
    \/ FormDeleteRemove(s)
    \/ \E id \in FormIds : AdminDeleteForm(s, id)
    \/ FormDeletePurge(s)

\* the update that slot 1 runs while slot 2 runs a request on the form
FormOverlapBodies == { [questions |-> <<>>] }

\* the creator's update of a form in slot s
FormOverlapRequest(s) ==
    \/ \E id \in FormIds, body \in FormOverlapBodies :
           FormUpdateFind(s, Creator, id, body)
    \/ FormUpdateSave(s)
    \/ FormPopulate(s)

\* response requests in both slots; slot 2 also serves the requests on
\* forms, which so overlap the response requests and the creator's update
\* of slot 1
NextForm ==
    \/ \E s \in Slots : FormRequest(s)
    \/ FormOverlapRequest(1)
    \/ FormOwnerRequest(2)

SpecForm == InitForm /\ [][NextForm]_vars

\* no form request is between two of its awaits
FormsQuiet == \A s \in Slots : freq[s].pc \in {"idle", "done"}

\* the number of responses stored for form f
StoredFor(f) ==
    Cardinality({ i \in 1..Len(formResponses) : formResponses[i].formId = f })

\* C25: whenever every submit-response and delete-response operation on a
\* form has completed, the form's responseCount equals the number of
\* responses stored for the form and is not negative.
C25_ResponseCountMatchesStored ==
    FormsQuiet =>
        \A f \in DOMAIN forms :
            /\ forms[f].responseCount = StoredFor(f)
            /\ forms[f].responseCount >= 0

-----------------------------------------------------------------------------
(* The quiz builder (components/QuizBuilder.tsx): the quizData of one
   component, the ids it has generated, and whether its post is in flight.
   The inputs stay usable while the post is in flight; when the post
   succeeds, or on "Back to Dashboard" or "Cancel", onBack leaves the
   builder and its state is gone.  A post that is in flight then is still
   answered; saving records it also after the builder was left. *)

\* the most questions added in one builder
MaxQuestions == 1

\* the most ids generated by uuidv4() in one builder
MaxUuids == 5

\* the n-th id generated by uuidv4()
UuidOf(n) == << "i", <<"1", "2", "3", "4", "5", "6", "7", "8", "9">>[n] >>

sBlank == <<" ">>

\* lines 56-74: the state of a freshly mounted builder; uuids counts the ids
\* generated
EmptyBuilder ==
    [ title |-> sEmpty, questions |-> <<>>, uuids |-> 0, saving |-> FALSE,
      mounted |-> TRUE ]

\* lines 79-88: the uuidv4() calls that addQuestion makes for a question of
\* the type: one for the question, two for the options of a choice
UuidsFor(type) ==
    IF type \in {"multiple-choice", "true-false"} THEN 3 ELSE 1

\* lines 78-91: the question that addQuestion makes, from fresh ids
NewBuilderQuestion(type, n) ==
    [ id |-> UuidOf(n + 1),
      type |-> type,
      question |-> sEmpty,
      options |->
        IF type = "multiple-choice"
            THEN << [ id |-> UuidOf(n + 2), text |-> sEmpty,
                      isCorrect |-> FALSE ],
                    [ id |-> UuidOf(n + 3), text |-> sEmpty,
                      isCorrect |-> FALSE ] >>
        ELSE IF type = "true-false"
            THEN << [ id |-> UuidOf(n + 2), text |-> sTrue,
                      isCorrect |-> FALSE ],
                    [ id |-> UuidOf(n + 3), text |-> sFalse,
                      isCorrect |-> FALSE ] >>
        ELSE <<>>,
      correctAnswer |-> IF type = "true-false" THEN sTrue ELSE sEmpty,
      points |-> 1 ]

\* lines 99-106: updateQuestion on the list of questions
UpdateQuestion(qs, questionId, updates) ==
    [ i \in 1..Len(qs) |->
        IF qs[i].id = questionId THEN Spread(qs[i], updates) ELSE qs[i] ]

\* quizData.questions.find(q => q.id === questionId): the indexes found
FindBuilderQuestion(qs, questionId) ==
    { i \in 1..Len(qs) : qs[i].id = questionId }

\* lines 132-134: the options with updates spread over the option optionId
PatchOption(options, optionId, updates) ==
    [ i \in 1..Len(options) |->
        IF options[i].id = optionId
            THEN Spread(options[i], updates) ELSE options[i] ]

MarkCorrect_KeepOthers(options, optionId) ==
    [ i \in 1..Len(options) |->
        IF options[i].id = optionId
            THEN [ options[i] EXCEPT !.isCorrect = TRUE ] ELSE options[i] ]

\* lines 140-143: only the option optionId is correct
MarkCorrect(options, optionId) ==
    [ i \in 1..Len(options) |->
        [ options[i] EXCEPT !.isCorrect = (options[i].id = optionId) ] ]

\* lines 129-150: updateOption on the list of questions
UpdateOptionIn(qs, questionId, optionId, updates) ==
    IF FindBuilderQuestion(qs, questionId) = {}
        THEN qs
        ELSE
          LET question   == qs[CHOOSE i \in FindBuilderQuestion(qs, questionId) :
                                  \A j \in FindBuilderQuestion(qs, questionId) :
                                      i <= j]
              newOptions == PatchOption(question.options, optionId, updates)
              first      == UpdateQuestion(qs, questionId,
                                           [ options |-> newOptions ])
          IN  IF /\ question.type = "multiple-choice"
                 /\ Has(updates, "isCorrect") /\ updates.isCorrect
                  THEN UpdateQuestion(first, questionId,
                         [ options |-> MarkCorrect(newOptions, optionId),
                           correctAnswer |-> optionId ])
                  ELSE first

\* lines 174-183: handleSave's checks of one multiple-choice question
ChoiceAccepted(q) ==
    /\ Len(q.options) >= 2
    /\ \E i \in 1..Len(q.options) : q.options[i].isCorrect

\* lines 168-193: handleSave's checks of one question
QuestionAccepted(q) ==
    /\ Trim(q.question) # sEmpty
    /\ q.type = "multiple-choice" => ChoiceAccepted(q)
    /\ q.type = "true-false" => q.correctAnswer # sEmpty
    /\ q.type = "fill-blank" => Trim(q.correctAnswer) # sEmpty

\* lines 162-194: handleSave goes on to post quizData
SaveAccepted(b) ==
    /\ b.title # sEmpty
    /\ Len(b.questions) # 0
    /\ \A i \in 1..Len(b.questions) : QuestionAccepted(b.questions[i])

\* line 246: the title input
SetTitle(title) ==
    /\ builder.mounted
    /\ builder' = [ builder EXCEPT !.title = title ]
    /\ UNCHANGED <<quizVars, forms, formResponses, freq, users, taker>>

\* lines 77-97: addQuestion
AddQuestion(type) ==
    /\ builder.mounted
    /\ Len(builder.questions) < MaxQuestions
    /\ builder.uuids + UuidsFor(type) <= MaxUuids
    /\ builder' =
         [ builder EXCEPT
             !.questions = Append(@, NewBuilderQuestion(type, builder.uuids)),
             !.uuids = @ + UuidsFor(type) ]
    /\ UNCHANGED <<quizVars, forms, formResponses, freq, users, taker>>

\* lines 108-113: deleteQuestion
DeleteQuestion(questionId) ==
    /\ builder.mounted
    /\ builder' =
         [ builder EXCEPT
             !.questions = SelectSeq(@, LAMBDA q : q.id # questionId) ]
    /\ UNCHANGED <<quizVars, forms, formResponses, freq, users, taker>>

\* lines 416, 427 and 444: the radios of a true-false question and the
\* input of a fill-blank question pass their value to updateQuestion as
\* correctAnswer
SetCorrectAnswer(questionId, value) ==
    /\ builder.mounted
    /\ builder' =
         [ builder EXCEPT
             !.questions = UpdateQuestion(@, questionId,
                                          [ correctAnswer |-> value ]) ]
    /\ UNCHANGED <<quizVars, forms, formResponses, freq, users, taker>>

\* line 461: the points input passes parseInt(value) || 1 to updateQuestion
SetPoints(questionId, points) ==
    /\ builder.mounted
    /\ builder' =
         [ builder EXCEPT
             !.questions = UpdateQuestion(@, questionId,
                 [ points |-> IF points = 0 THEN 1 ELSE points ]) ]
    /\ UNCHANGED <<quizVars, forms, formResponses, freq, users, taker>>

\* line 339: the question text input
SetQuestionText(questionId, text) ==
    /\ builder.mounted
    /\ FindBuilderQuestion(builder.questions, questionId) # {}
    /\ builder' =
         [ builder EXCEPT
             !.questions = UpdateQuestion(@, questionId,
                                          [ question |-> text ]) ]
    /\ UNCHANGED <<quizVars, forms, formResponses, freq, users, taker>>

\* lines 115-127: addOption
AddOption(questionId) ==
    /\ builder.mounted
    /\ builder.uuids < MaxUuids
    /\ \E i \in FindBuilderQuestion(builder.questions, questionId) :
         /\ builder.questions[i].type = "multiple-choice"
         /\ builder' =
              [ builder EXCEPT
                  !.questions = UpdateQuestion(@, questionId,
                      [ options |->
                          Append(builder.questions[i].options,
                                 [ id |-> UuidOf(builder.uuids + 1),
                                   text |-> sEmpty,
                                   isCorrect |-> FALSE ]) ]),
                  !.uuids = @ + 1 ]
    /\ UNCHANGED <<quizVars, forms, formResponses, freq, users, taker>>

\* lines 129-150: updateOption
UpdateOption(questionId, optionId, updates) ==
    /\ builder.mounted
    /\ builder' =
         [ builder EXCEPT
             !.questions = UpdateOptionIn(@, questionId, optionId, updates) ]
    /\ UNCHANGED <<quizVars, forms, formResponses, freq, users, taker>>

\* lines 152-159: deleteOption
DeleteOption(questionId, optionId) ==
    /\ builder.mounted
    /\ \E i \in FindBuilderQuestion(builder.questions, questionId) :
         /\ Len(builder.questions[i].options) > 2
         /\ builder' =
              [ builder EXCEPT
                  !.questions = UpdateQuestion(@, questionId,
                      [ options |->
                          SelectSeq(builder.questions[i].options,
                                    LAMBDA o : o.id # optionId) ]) ]
    /\ UNCHANGED <<quizVars, forms, formResponses, freq, users, taker>>

\* lines 161-198 and 679-680: a click on the save button, which is
\* disabled while a post is in flight; handleSave posts quizData when its
\* checks pass
HandleSave ==
    /\ builder.mounted
    /\ ~builder.saving
    /\ SaveAccepted(builder)
    /\ builder' = [ builder EXCEPT !.saving = TRUE ]
    /\ UNCHANGED <<quizVars, forms, formResponses, freq, users, taker>>

\* lines 225 and 673, "Back to Dashboard" and "Cancel": onBack leaves the
\* builder, whether a post is in flight or not
Back ==
    /\ builder.mounted
    /\ builder' = [ EmptyBuilder EXCEPT !.mounted = FALSE,
                                        !.saving = builder.saving ]
    /\ UNCHANGED <<quizVars, forms, formResponses, freq, users, taker>>

\* lines 198-200: the post succeeded and onBack leaves the builder
PostResolved ==
    /\ builder.saving
    /\ builder' = [ EmptyBuilder EXCEPT !.mounted = FALSE ]
    /\ UNCHANGED <<quizVars, forms, formResponses, freq, users, taker>>

\* lines 201-205: the post failed; quizData stays as it is
PostRejected ==
    /\ builder.saving
    /\ builder' = [ builder EXCEPT !.saving = FALSE ]
    /\ UNCHANGED <<quizVars, forms, formResponses, freq, users, taker>>

\* the ids of the questions in the builder
BuilderQuestionIds ==
    { builder.questions[i].id : i \in 1..Len(builder.questions) }

\* the ids of the options of the multiple-choice question questionId, whose
\* editor is the only one with option controls (lines 361-398)
ChoiceOptionIds(questionId) ==
    UNION { { builder.questions[i].options[j].id :
                  j \in 1..Len(builder.questions[i].options) } :
              i \in { k \in FindBuilderQuestion(builder.questions, questionId) :
                        builder.questions[k].type = "multiple-choice" } }

\* lines 374 and 380: what the option controls pass to updateOption
OptionUpdates == { [ isCorrect |-> TRUE ], [ text |-> sA ] }

\* the values that the correct-answer controls of the question questionId
\* pass: the radios of a true-false question (lines 414-427), the text
\* typed into the input of a fill-blank question (line 444); the other
\* types have no such control
CorrectAnswerValues(questionId) ==
    UNION { IF builder.questions[i].type = "true-false"
                THEN { sTrue, sFalse }
            ELSE IF builder.questions[i].type = "fill-blank"
                THEN { sBlank, sParis }
            ELSE {} :
            i \in FindBuilderQuestion(builder.questions, questionId) }

\* numbers that parseInt reads from the points input; 0 also stands for
\* text it cannot read
PointsInputs == { 0, 2 }

InitBuilder ==
    /\ QuizIdle
    /\ forms = EmptyObj
    /\ formResponses = <<>>
    /\ freq = [s \in Slots |-> Idle]
    /\ users = EmptyObj
    /\ taker = EmptyObj
    /\ builder = EmptyBuilder

NextBuilder ==
    \/ \E title \in {sEmpty, sA} : SetTitle(title)
    \/ \E type \in QuestionTypes : AddQuestion(type)
    \/ \E q \in BuilderQuestionIds : DeleteQuestion(q)
    \/ \E q \in BuilderQuestionIds :
           \E value \in CorrectAnswerValues(q) : SetCorrectAnswer(q, value)
    \/ \E q \in BuilderQuestionIds, points \in PointsInputs :
           SetPoints(q, points)
    \/ \E q \in BuilderQuestionIds : SetQuestionText(q, sA)
    \/ \E q \in BuilderQuestionIds : AddOption(q)
    \/ \E q \in BuilderQuestionIds :
           \E o \in ChoiceOptionIds(q), updates \in OptionUpdates :
               UpdateOption(q, o, updates)
    \/ \E q \in BuilderQuestionIds :
           \E o \in ChoiceOptionIds(q) : DeleteOption(q, o)
    \/ HandleSave
    \/ Back
    \/ PostResolved
    \/ PostRejected

SpecBuilder == InitBuilder /\ [][NextBuilder]_vars

\* the multiple-choice questions among qs
ChoiceQuestions(qs) ==
    { qs[i] : i \in { k \in 1..Len(qs) : qs[k].type = "multiple-choice" } }

\* the options of q marked correct, by position
CorrectOptions(q) == { i \in 1..Len(q.options) : q.options[i].isCorrect }

\* the step is handleSave posting quizData
Posts == ~builder.saving /\ builder'.saving

\* C29: in the quiz builder a multiple-choice question never has more than
\* one option marked correct, the marked option's id is the question's
\* correctAnswer, and every multiple-choice question that handleSave posts
\* has a correctAnswer that is the id of one of its options.
C29_CorrectAnswerIsTheMarkedOption ==
    /\ [](builder # EmptyObj =>
             \A q \in ChoiceQuestions(builder.questions) :
                 /\ Cardinality(CorrectOptions(q)) <= 1
                 /\ \A i \in CorrectOptions(q) :
                        q.correctAnswer = q.options[i].id)
    /\ [][ Posts =>
               \A q \in ChoiceQuestions(builder.questions) :
                   \E i \in 1..Len(q.options) :
                       q.options[i].id = q.correctAnswer ]_vars

\* a post is in flight of a quiz that handleSave accepts, with a
\* multiple-choice question whose correct mark moved to an option made by
\* addOption and of whose first two options one was deleted
C29_Witness ==
    /\ builder # EmptyObj
    /\ builder.saving
    /\ SaveAccepted(builder)
    /\ \E q \in ChoiceQuestions(builder.questions) :
         /\ q.correctAnswer \notin { UuidOf(2), UuidOf(3) }
         /\ \E i \in 1..Len(q.options) : q.options[i].id = q.correctAnswer
         /\ \E n \in {2, 3} :
              \A i \in 1..Len(q.options) : q.options[i].id # UuidOf(n)

-----------------------------------------------------------------------------
(* The admin routes on users (routes/admin.js): approve and reject, one
   action per await, two admin requests in flight.  Dates (approvedAt) are
   left out, and the administrator whom populate reads stands for the
   populated approvedBy. *)

\* a user id that no user has
MissingUser == "u0"

\* createDefaultAdmin lines 13-20: the fields of a created user that the
\* admin routes read or write
NewUser(role, approved) ==
    [ role |-> role, isApproved |-> approved, isActive |-> TRUE ]

\* lines 73-75: the approve handler's assignments to the loaded user
ApproveDoc(user, admin) ==
    Spread(user, [ isApproved |-> TRUE, approvedBy |-> admin ])

\* lines 95-96: the reject handler's assignments to the loaded user
RejectDoc(user) ==
    Spread(user, [ isApproved |-> FALSE, isActive |-> FALSE ])

\* lines 68-75 and 90-96: User.findById for an approve or a reject request,
\* and the handler's assignments to the document it loaded
AdminFind(s, admin, op, id) ==
    /\ freq[s].pc = "idle"
    /\ freq' = [ freq EXCEPT ![s] =
         IF Has(users, id)
             THEN [ pc |-> "save", op |-> op, id |-> id,
                    loaded |-> users[id],
                    user |-> IF op = "approve"
                             THEN ApproveDoc(users[id], admin)
                             ELSE RejectDoc(users[id]) ]
             ELSE Done(ErrorReply(404, "User not found")) ]
    /\ UNCHANGED <<quizVars, forms, formResponses, users, taker, builder>>

\* user.save(): the paths whose value is no longer the loaded one are
\* written to the stored user, whatever the stored user has become since
SaveUser(s) ==
    [ users EXCEPT ![freq[s].id] =
          SaveWrites(@, freq[s].user,
                     ModifiedPaths(freq[s].loaded, freq[s].user, {})) ]

\* line 76: the save of an approve request
ApproveUser(s) ==
    /\ freq[s].pc = "save"
    /\ freq[s].op = "approve"
    /\ users' = SaveUser(s)
    /\ freq' = [ freq EXCEPT ![s].pc = "populate" ]
    /\ UNCHANGED <<quizVars, forms, formResponses, taker, builder>>

\* lines 78-80: user.populate('approvedBy', 'name email') has read the
\* administrator; the reply carries the handler's copy of the user
ApprovePopulate(s) ==
    /\ freq[s].pc = "populate"
    /\ freq' = [ freq EXCEPT ![s] =
         Spread([ op |-> "approve", id |-> freq[s].id ],
                Done(Reply(200,
                    [ message |-> "User approved successfully",
                      user |-> freq[s].user ]))) ]
    /\ UNCHANGED <<quizVars, forms, formResponses, users, taker, builder>>

\* lines 97-99: the save of a reject request, and the reply with the
\* handler's copy of the user
RejectUser(s) ==
    /\ freq[s].pc = "save"
    /\ freq[s].op = "reject"
    /\ users' = SaveUser(s)
    /\ freq' = [ freq EXCEPT ![s] =
         Spread([ op |-> "reject", id |-> freq[s].id ],
                Done(Reply(200,
                    [ message |-> "User rejected successfully",
                      user |-> freq[s].user ]))) ]
    /\ UNCHANGED <<quizVars, forms, formResponses, taker, builder>>

\* the reply is sent and the slot is free for the next request
AdminFinish(s) ==
    /\ freq[s].pc = "done"
    /\ freq' = [ freq EXCEPT ![s] = Idle ]
    /\ UNCHANGED <<quizVars, forms, formResponses, users, taker, builder>>

InitAdmin ==
    /\ QuizIdle
    /\ forms = EmptyObj
    /\ formResponses = <<>>
    /\ freq = [s \in Slots |-> Idle]
    /\ users \in { (Admin :> NewUser("admin", TRUE))
                     @@ [ u \in Users |-> NewUser("user", approved[u]) ] :
                   approved \in [Users -> BOOLEAN] }
    /\ taker = EmptyObj
    /\ builder = EmptyObj

\* an admin request in slot s
AdminRequest(s) ==
    \/ \E op \in {"approve", "reject"}, id \in Users \cup {MissingUser} :
           AdminFind(s, Admin, op, id)
    \/ ApproveUser(s)
    \/ ApprovePopulate(s)
    \/ RejectUser(s)
    \/ AdminFinish(s)

NextAdmin == AdminRequest(1) \/ AdminRequest(2)

SpecAdmin == InitAdmin /\ [][NextAdmin]_vars

\* the step is the save of an approve request that loaded the user as it is
\* stored now: no other request wrote the user since
ApproveSaves(s) ==
    /\ freq[s].pc = "save"
    /\ freq[s].op = "approve"
    /\ freq'[s].pc = "populate"
    /\ freq[s].loaded = users[freq[s].id]

\* C30: approve undoes reject: the save of an approve request leaves the
\* user approved and active, also when the user had been rejected before.
C30_ApproveUndoesReject ==
    [][ \A s \in Slots :
            ApproveSaves(s) =>
                /\ users'[freq[s].id].isApproved
                /\ users'[freq[s].id].isActive ]_vars

====
